---- MODULE Spec2Model ----
(***************************************************************************)
(* Model of the persistence layer of nee-reads: the SQLite-backed library  *)
(* store (books / book_statuses, api/database.py) and the search cache     *)
(* (search_cache, api/services/cache.py), with the handlers that use them:  *)
(* the search route (api/routes/books.py) and the status routes            *)
(* (api/routes/status.py).                                                 *)
(*                                                                         *)
(* Every handler opens its own connection (get_db_connection).  Python's   *)
(* sqlite3 opens a transaction implicitly before the first INSERT/UPDATE/  *)
(* DELETE of a connection; the transaction ends at commit(), or is rolled  *)
(* back when the connection is closed without commit.  While a connection  *)
(* has an open write transaction it holds the database write lock and its  *)
(* changes are visible to itself only.                                     *)
(*                                                                         *)
(* Columns that only the database assigns and no operation reads (the ids  *)
(* of book_statuses and search_cache, search_cache.created_at) are left    *)
(* out of the rows.                                                        *)
(***************************************************************************)
EXTENDS Integers, Sequences, FiniteSets, TLC

VARIABLES
    now,            \* the wall clock, in ticks
    books,          \* committed rows of table books
    book_statuses,  \* committed rows of table book_statuses
    book_seq,       \* committed AUTOINCREMENT counter of books (sqlite_sequence)
    search_cache,   \* committed rows of table search_cache
    lock,           \* the connection holding the write lock, or NoProc
    tx,             \* per handler: the uncommitted view of its open transaction
    call,           \* per handler: the call in progress and its local variables
    ret,            \* the outcome of the call that finished last
    connections,    \* the number of connections that are open
    schema,         \* the tables and indexes that exist in the database file
    search          \* per handler: the search request it is answering

vars == <<now, books, book_statuses, book_seq, search_cache, lock, tx, call, ret,
          connections, schema, search>>

----------------------------------------------------------------------------
(* Bounds of the model *)

MaxTime == 1            \* the clock stops advancing here (library store)
MaxCacheTime == 5       \* the clock stops advancing here (cache store)
TicksPerDay == 2        \* clock resolution: ticks in one calendar day
MaxBookId == 2          \* no book is inserted past this AUTOINCREMENT value
MaxConnections == 4     \* no connection is opened while this many are open

(* Program constants *)

CACHE_TTL_HOURS == 24

Procs == {"h1", "h2"}   \* concurrently running request handlers
NoProc == "none"
NULL == "NULL"

Keys == {"/works/OL1W", "/works/OL2W"}
ValidStatuses == {"to_read", "did_not_finish", "completed"}
StatusInputs == {"to_read", "completed", "invalid_status"}

ConcKeys == {"/works/OL1W"}
ConcStatusInputs == {"to_read", "invalid_status"}

Metas ==
    { [title |-> "Book One", author_name |-> <<"Author One", "Author Two">>,
       cover_url |-> "cover.jpg", first_publish_year |-> "2020"],
      [title |-> "Book One (rev)", author_name |-> <<"Author Two", "Author One">>,
       cover_url |-> NULL, first_publish_year |-> NULL] }

ConcMetas == {m \in Metas : m.cover_url # NULL}

----------------------------------------------------------------------------
(* Timestamps as text.  A timestamp text is <<date, separator, time of day>>;
   texts are compared the way SQLite compares TEXT values (byte by byte), so
   the date decides first, then the separator character, then the time. *)

IsoFormat(t) == <<t \div TicksPerDay, "T", t % TicksPerDay>>

SqliteDatetime(t) == <<t \div TicksPerDay, " ", t % TicksPerDay>>

CharCode(c) == IF c = " " THEN 32 ELSE 84

TextLess(a, b) ==
    \/ a[1] < b[1]
    \/ a[1] = b[1] /\ CharCode(a[2]) < CharCode(b[2])
    \/ a[1] = b[1] /\ CharCode(a[2]) = CharCode(b[2]) /\ a[3] < b[3]

----------------------------------------------------------------------------
(* JSON text of a list of strings: a sequence of tokens. *)

Punct(c) == [t |-> "punct", v |-> c]
StrTok(s) == [t |-> "str", v |-> s]

RECURSIVE JsonItems(_)
JsonItems(l) ==
    IF l = <<>> THEN <<>>
    ELSE IF Len(l) = 1 THEN <<StrTok(l[1])>>
    ELSE <<StrTok(l[1]), Punct(",")>> \o JsonItems(Tail(l))

JsonDumpsList(l) == <<Punct("[")>> \o JsonItems(l) \o <<Punct("]")>>

JsonIsList(text) ==
    /\ Len(text) >= 2
    /\ text[1] = Punct("[")
    /\ text[Len(text)] = Punct("]")
    /\ \/ Len(text) = 2
       \/ /\ Len(text) % 2 = 1
          /\ \A i \in 2..(Len(text) - 1) :
                IF i % 2 = 0 THEN text[i].t = "str" ELSE text[i] = Punct(",")

\* Variant: the elements come out in reverse order.
JsonLoadsReversed(text) ==
    [i \in 1..((Len(text) - 1) \div 2) |-> text[Len(text) + 1 - 2 * i].v]

JsonLoadsList(text) == [i \in 1..((Len(text) - 1) \div 2) |-> text[2 * i].v]

\* An author_name value is a list of strings, or else a single str, written
\* <<"str", its text>>: the annotation list[str] is not enforced when
\* set_book_status is called.
IsStrList(v) == v = <<>> \/ v[1] # "str"

\* json.dumps(author_name)
JsonDumpsAuthor(v) == IF IsStrList(v) THEN JsonDumpsList(v) ELSE <<StrTok(v[2])>>

\* The text is one JSON string.
JsonIsString(text) == Len(text) = 1 /\ text[1].t = "str"

\* json.loads raises no JSONDecodeError on the text.
JsonDecodes(text) == JsonIsList(text) \/ JsonIsString(text)

\* json.loads(result["author_name"])
JsonLoadsAuthor(text) ==
    IF JsonIsString(text) THEN <<"str", text[1].v>> ELSE JsonLoadsList(text)

----------------------------------------------------------------------------
(* Rows, calls and results *)

NoRow == [openlibrary_work_key |-> NULL, title |-> NULL, author_name |-> <<>>,
          cover_url |-> NULL, first_publish_year |-> NULL, status |-> NULL,
          created_at |-> <<0, "T", 0>>, updated_at |-> <<0, "T", 0>>]

NoMeta == [title |-> NULL, author_name |-> <<>>, cover_url |-> NULL,
           first_publish_year |-> NULL]

NoTx == [open |-> FALSE, books |-> {}, book_statuses |-> {}, book_seq |-> 0,
         search_cache |-> {}]

Idle == [name |-> "idle", pc |-> "idle", key |-> NULL, status |-> NULL,
         meta |-> NoMeta, author_name_json |-> <<>>, now |-> <<0, "T", 0>>,
         book_id |-> 0, status_deleted |-> FALSE,
         query |-> <<>>, page |-> 0, limit |-> 0, query_hash |-> <<>>,
         response_json |-> <<>>, expires_at |-> <<0, "T", 0>>, rowcount |-> 0,
         keys |-> <<>>, foreign_keys |-> FALSE, statement |-> 0]

\* SearchResponse(books, total, page, total_pages)
NoResponse == [books |-> <<>>, total |-> 0, page |-> 0, total_pages |-> 0]

\* kind: "none" (None), "row" (a joined record), "bool", "payload" (a cached
\* response), "int", "map" (a dict), "error"; pc: the statement at which the
\* call ended
NoRet == [proc |-> NoProc, name |-> "idle", pc |-> "idle", key |-> NULL, query |-> <<>>,
          page |-> 0, limit |-> 0, kind |-> "none", row |-> NoRow,
          bool |-> FALSE, payload |-> <<>>, int |-> 0, error |-> NULL,
          keys |-> <<>>, map |-> <<>>, status |-> NULL, list |-> <<>>,
          code |-> 0, response |-> NoResponse, message |-> <<>>,
          cached |-> FALSE, fetched |-> 0, stored |-> 0]

Returned(p, c, kind, row, b, err) ==
    [NoRet EXCEPT !.proc = p, !.name = c.name, !.pc = c.pc, !.key = c.key,
                  !.query = c.query, !.keys = c.keys, !.status = c.status,
                  !.page = c.page, !.limit = c.limit, !.kind = kind, !.row = row,
                  !.bool = b, !.error = err]

\* The search handler's frame.  pc: "lookup" (get_cached_response), "fetch"
\* (search_books), "store_begin" to "store_commit" (store_cached_response),
\* "enrich" (enrich_books_with_status); cached: the request is answered from
\* the cache; fetched, stored: the calls of search_books and of
\* store_cached_response made so far.
NoSearch == [pc |-> "idle", q |-> <<>>, page |-> 0, limit |-> 0, raw_response |-> <<>>,
             cached |-> FALSE, fetched |-> 0, stored |-> 0]

\* The tables a statement of handler p reads: its own open transaction, or
\* else the committed database.
ViewBooks(p) == IF tx[p].open THEN tx[p].books ELSE books
ViewStatuses(p) == IF tx[p].open THEN tx[p].book_statuses ELSE book_statuses
ViewSeq(p) == IF tx[p].open THEN tx[p].book_seq ELSE book_seq
ViewCache(p) == IF tx[p].open THEN tx[p].search_cache ELSE search_cache

\* A write statement starts a transaction unless one is open; it needs the
\* write lock, which one connection holds at a time.
CanWrite(p) == lock = NoProc \/ lock = p

\* books b JOIN book_statuses bs ON b.id = bs.book_id
Join(bs, ss) ==
    { [openlibrary_work_key |-> b.openlibrary_work_key, title |-> b.title,
       author_name |-> b.author_name, cover_url |-> b.cover_url,
       first_publish_year |-> b.first_publish_year, status |-> s.status,
       created_at |-> s.created_at, updated_at |-> s.updated_at]
      : <<b, s>> \in {x \in bs \X ss : x[1].id = x[2].book_id} }

\* Variant: the WHERE clause on the key is left out.
JoinAnyKey(bs, ss, key) == Join(bs, ss)

\* ... WHERE b.openlibrary_work_key = ?
JoinFor(bs, ss, key) == {r \in Join(bs, ss) : r.openlibrary_work_key = key}

\* result["author_name"] = json.loads(result["author_name"])
Decoded(r) == [r EXCEPT !.author_name = JsonLoadsAuthor(r.author_name)]

\* The tables and indexes of the store, in the order init_database creates
\* them.
Statements ==
    <<"search_cache", "idx_query_hash", "idx_expires_at", "books",
      "idx_books_openlibrary_work_key", "book_statuses",
      "idx_book_statuses_book_id", "idx_book_statuses_status">>

SchemaObjects == {Statements[i] : i \in 1..Len(Statements)}

----------------------------------------------------------------------------
\* The state once the application has started: lifespan has run
\* init_database on the database file.
Init ==
    /\ now = 0
    /\ books = {}
    /\ book_statuses = {}
    /\ book_seq = 0
    /\ search_cache = {}
    /\ lock = NoProc
    /\ tx = [p \in Procs |-> NoTx]
    /\ call = [p \in Procs |-> Idle]
    /\ ret = NoRet
    /\ connections = 0
    /\ schema = SchemaObjects
    /\ search = [p \in Procs |-> NoSearch]

Tick(max) ==
    /\ now < max
    /\ now' = now + 1
    /\ UNCHANGED <<books, book_statuses, book_seq, search_cache, lock, tx, call, ret,
                   connections, schema, search>>

----------------------------------------------------------------------------
(* Connection scope: get_db_connection *)

\* commit(): the transaction's view becomes the committed database.
Commit(p) ==
    /\ books' = ViewBooks(p)
    /\ book_statuses' = ViewStatuses(p)
    /\ book_seq' = ViewSeq(p)
    /\ search_cache' = ViewCache(p)

\* Variant: closing the connection commits what is pending.
CommitOnClose(p) == Commit(p)

\* close() without commit: an open transaction is rolled back.
Rollback(p) == UNCHANGED <<books, book_statuses, book_seq, search_cache>>

\* finally: await db.close()  -- ends the transaction and frees the lock.
Close(p) ==
    /\ tx' = [tx EXCEPT ![p] = NoTx]
    /\ lock' = IF lock = p THEN NoProc ELSE lock

\* The call of p ends by raising err: the connection is closed, uncommitted.
Raise(p, err) ==
    /\ Rollback(p)
    /\ Close(p)
    /\ connections' = connections - 1
    /\ UNCHANGED <<schema, search>>
    /\ call' = [call EXCEPT ![p] = Idle]
    /\ ret' = Returned(p, call[p], "error", NoRow, FALSE, err)

\* The call of p ends by returning: the connection scope is left.
Finish(p, r) ==
    /\ Close(p)
    /\ connections' = connections - 1
    /\ UNCHANGED <<schema, search>>
    /\ call' = [call EXCEPT ![p] = Idle]
    /\ ret' = r

Return(p, kind, row, b) == Finish(p, Returned(p, call[p], kind, row, b, NULL))

\* Variant: the connection is in autocommit mode, every statement is its own
\* transaction.
BeginAutocommit(p, bs, ss, seq, sc) ==
    /\ books' = bs
    /\ book_statuses' = ss
    /\ book_seq' = seq
    /\ search_cache' = sc
    /\ UNCHANGED <<tx, lock>>

\* A statement of p that writes: begins the transaction if none is open.
Begin(p, bs, ss, seq, sc) ==
    /\ tx' = [tx EXCEPT ![p] = [open |-> TRUE, books |-> bs, book_statuses |-> ss,
                                book_seq |-> seq, search_cache |-> sc]]
    /\ lock' = p
    /\ UNCHANGED <<books, book_statuses, book_seq, search_cache>>

\* An operation fails at an await point (storage error, cancellation, crash
\* of the process) while its connection is open.
Fail(p) ==
    /\ call[p].pc # "idle"
    /\ Raise(p, "Aborted")
    /\ UNCHANGED now

----------------------------------------------------------------------------
(* set_book_status *)

\* Variant: on conflict a NULL cover_url keeps the stored one (a field merge).
UpsertBookMerge(bs, seq, c) ==
    IF \E b \in bs : b.openlibrary_work_key = c.key
    THEN { IF b.openlibrary_work_key = c.key
           THEN [b EXCEPT !.title = c.meta.title,
                          !.author_name = c.author_name_json,
                          !.cover_url = IF c.meta.cover_url = NULL THEN b.cover_url
                                        ELSE c.meta.cover_url,
                          !.first_publish_year = c.meta.first_publish_year]
           ELSE b : b \in bs }
    ELSE bs \cup { [id |-> seq + 1, openlibrary_work_key |-> c.key,
                    title |-> c.meta.title, author_name |-> c.author_name_json,
                    cover_url |-> c.meta.cover_url,
                    first_publish_year |-> c.meta.first_publish_year,
                    created_at |-> c.now] }

\* Variant: the key column is not UNIQUE, every call inserts a books row.
UpsertBookInsert(bs, seq, c) ==
    bs \cup { [id |-> Cardinality(bs) + seq + 1, openlibrary_work_key |-> c.key,
               title |-> c.meta.title, author_name |-> c.author_name_json,
               cover_url |-> c.meta.cover_url,
               first_publish_year |-> c.meta.first_publish_year,
               created_at |-> c.now] }

\* INSERT INTO books ... ON CONFLICT(openlibrary_work_key) DO UPDATE SET ...
UpsertBook(bs, seq, c) ==
    IF \E b \in bs : b.openlibrary_work_key = c.key
    THEN { IF b.openlibrary_work_key = c.key
           THEN [b EXCEPT !.title = c.meta.title,
                          !.author_name = c.author_name_json,
                          !.cover_url = c.meta.cover_url,
                          !.first_publish_year = c.meta.first_publish_year]
           ELSE b : b \in bs }
    ELSE bs \cup { [id |-> seq + 1, openlibrary_work_key |-> c.key,
                    title |-> c.meta.title, author_name |-> c.author_name_json,
                    cover_url |-> c.meta.cover_url,
                    first_publish_year |-> c.meta.first_publish_year,
                    created_at |-> c.now] }

\* the AUTOINCREMENT counter after the books upsert
UpsertBookSeq(bs, seq, c) ==
    IF \E b \in bs : b.openlibrary_work_key = c.key THEN seq ELSE seq + 1

\* Variant: INSERT OR REPLACE, which writes created_at anew on conflict.
UpsertStatusReplace(ss, c) ==
    {s \in ss : s.book_id # c.book_id}
    \cup { [book_id |-> c.book_id, status |-> c.status,
            created_at |-> c.now, updated_at |-> c.now] }

\* INSERT INTO book_statuses ... ON CONFLICT(book_id) DO UPDATE SET ...
UpsertStatus(ss, c) ==
    IF \E s \in ss : s.book_id = c.book_id
    THEN { IF s.book_id = c.book_id
           THEN [s EXCEPT !.status = c.status, !.updated_at = c.now]
           ELSE s : s \in ss }
    ELSE ss \cup { [book_id |-> c.book_id, status |-> c.status,
                    created_at |-> c.now, updated_at |-> c.now] }

\* Variant: the table has no CHECK constraint on status.
NoStatusCheck(status) == TRUE

\* CHECK(status IN ('to_read', 'did_not_finish', 'completed'))
StatusCheck(status) == status \in ValidStatuses

SetBegin(p, key, status, meta) ==
    /\ call[p].pc = "idle"
    /\ call' = [call EXCEPT ![p] =
                 [Idle EXCEPT !.name = "set_book_status", !.pc = "set_upsert_book",
                              !.foreign_keys = TRUE,
                              !.key = key, !.status = status, !.meta = meta,
                              !.author_name_json = JsonDumpsAuthor(meta.author_name),
                              !.now = IsoFormat(now)]]
    /\ ret' = NoRet
    /\ connections < MaxConnections
    /\ connections' = connections + 1
    /\ UNCHANGED <<schema, search>>
    /\ UNCHANGED <<now, books, book_statuses, book_seq, search_cache, lock, tx>>

SetUpsertBook(p) ==
    /\ call[p].pc = "set_upsert_book"
    /\ CanWrite(p)
    /\ UpsertBookSeq(ViewBooks(p), ViewSeq(p), call[p]) <= MaxBookId
    /\ Begin(p, UpsertBook(ViewBooks(p), ViewSeq(p), call[p]), ViewStatuses(p),
             UpsertBookSeq(ViewBooks(p), ViewSeq(p), call[p]), ViewCache(p))
    /\ call' = [call EXCEPT ![p].pc = "set_select_id"]
    /\ UNCHANGED <<now, ret, connections, schema, search>>

SetSelectId(p) ==
    /\ call[p].pc = "set_select_id"
    /\ \E b \in ViewBooks(p) :
          /\ b.openlibrary_work_key = call[p].key
          /\ call' = [call EXCEPT ![p].book_id = b.id, ![p].pc = "set_upsert_status"]
    /\ UNCHANGED <<now, books, book_statuses, book_seq, search_cache, lock, tx, ret,
                   connections, schema, search>>

SetUpsertStatus(p) ==
    /\ call[p].pc = "set_upsert_status"
    /\ IF StatusCheck(call[p].status)
       THEN /\ Begin(p, ViewBooks(p), UpsertStatus(ViewStatuses(p), call[p]),
                     ViewSeq(p), ViewCache(p))
            /\ call' = [call EXCEPT ![p].pc = "set_commit"]
            /\ UNCHANGED <<ret, connections, schema, search>>
       ELSE Raise(p, "IntegrityError")
    /\ UNCHANGED now

SetCommit(p) ==
    /\ call[p].pc = "set_commit"
    /\ Commit(p)
    /\ Close(p)
    /\ call' = [call EXCEPT ![p].pc = "set_read_back"]
    /\ UNCHANGED <<now, ret, connections, schema, search>>

SetReadBack(p) ==
    /\ call[p].pc = "set_read_back"
    /\ LET rows == JoinFor(ViewBooks(p), ViewStatuses(p), call[p].key)
       IN  IF rows = {}
           THEN Raise(p, "TypeError")
           ELSE \E r \in rows :
                   /\ Return(p, "row", Decoded(r), FALSE)
                   /\ UNCHANGED <<books, book_statuses, book_seq, search_cache>>
    /\ UNCHANGED now

----------------------------------------------------------------------------
(* delete_book_status *)

\* Variant: the DELETE has no WHERE clause.
DeleteAllStatusRows(ss, book_id) == {}

\* Variant: the status row is left to the cascade of the books delete.
KeepStatusRows(ss, book_id) == ss

\* DELETE FROM book_statuses WHERE book_id = ?
DeleteStatusRows(ss, book_id) == {s \in ss : s.book_id # book_id}

\* Variant: the orphaned book is not cleaned up.
KeepBookRows(bs, book_id) == bs

\* DELETE FROM books WHERE id = ?
DeleteBookRows(bs, book_id) == {b \in bs : b.id # book_id}

\* REFERENCES books(id) ON DELETE CASCADE, with PRAGMA foreign_keys = ON
Cascade(bs, ss) == {s \in ss : \E b \in bs : b.id = s.book_id}

DelBegin(p, key) ==
    /\ call[p].pc = "idle"
    /\ call' = [call EXCEPT ![p] =
                 [Idle EXCEPT !.name = "delete_book_status", !.pc = "del_select_id",
                              !.foreign_keys = TRUE,
                              !.key = key]]
    /\ ret' = NoRet
    /\ connections < MaxConnections
    /\ connections' = connections + 1
    /\ UNCHANGED <<schema, search>>
    /\ UNCHANGED <<now, books, book_statuses, book_seq, search_cache, lock, tx>>

\* Variant: a key without a book is reported as deleted.
DelSelectIdFound(p) ==
    /\ call[p].pc = "del_select_id"
    /\ LET rows == {b \in ViewBooks(p) : b.openlibrary_work_key = call[p].key}
       IN  IF rows = {}
           THEN /\ Return(p, "bool", NoRow, TRUE)
                /\ UNCHANGED <<books, book_statuses, book_seq, search_cache>>
           ELSE \E b \in rows :
                   /\ call' = [call EXCEPT ![p].book_id = b.id, ![p].pc = "del_status"]
                   /\ UNCHANGED <<books, book_statuses, book_seq, search_cache,
                                  lock, tx, ret, connections, schema, search>>
    /\ UNCHANGED now

\* SELECT id FROM books WHERE openlibrary_work_key = ?;  if not row: return False
DelSelectId(p) ==
    /\ call[p].pc = "del_select_id"
    /\ LET rows == {b \in ViewBooks(p) : b.openlibrary_work_key = call[p].key}
       IN  IF rows = {}
           THEN /\ Return(p, "bool", NoRow, FALSE)
                /\ UNCHANGED <<books, book_statuses, book_seq, search_cache>>
           ELSE \E b \in rows :
                   /\ call' = [call EXCEPT ![p].book_id = b.id, ![p].pc = "del_status"]
                   /\ UNCHANGED <<books, book_statuses, book_seq, search_cache,
                                  lock, tx, ret, connections, schema, search>>
    /\ UNCHANGED now

DelStatus(p) ==
    /\ call[p].pc = "del_status"
    /\ CanWrite(p)
    /\ Begin(p, ViewBooks(p), DeleteStatusRows(ViewStatuses(p), call[p].book_id),
             ViewSeq(p), ViewCache(p))
    /\ call' = [call EXCEPT
                 ![p].status_deleted =
                     Cardinality(ViewStatuses(p)
                         \ DeleteStatusRows(ViewStatuses(p), call[p].book_id)) > 0,
                 ![p].pc = "del_book"]
    /\ UNCHANGED <<now, ret, connections, schema, search>>

DelBook(p) ==
    /\ call[p].pc = "del_book"
    /\ LET bs == DeleteBookRows(ViewBooks(p), call[p].book_id)
       IN  Begin(p, bs,
                 IF call[p].foreign_keys THEN Cascade(bs, ViewStatuses(p))
                 ELSE ViewStatuses(p),
                 ViewSeq(p), ViewCache(p))
    /\ call' = [call EXCEPT ![p].pc = "del_commit"]
    /\ UNCHANGED <<now, ret, connections, schema, search>>

DelCommit(p) ==
    /\ call[p].pc = "del_commit"
    /\ Commit(p)
    /\ Return(p, "bool", NoRow, call[p].status_deleted)
    /\ UNCHANGED now

----------------------------------------------------------------------------
(* get_book_status *)

\* What get_book_status returns on the committed rows bs, ss.
BookStatus(p, bs, ss, key) ==
    LET c == [Idle EXCEPT !.name = "get_book_status", !.key = key]
        rows == JoinFor(bs, ss, key)
    IN  IF rows = {} THEN Returned(p, c, "none", NoRow, FALSE, NULL)
        ELSE LET r == CHOOSE r \in rows : TRUE
             IN  IF JsonDecodes(r.author_name)
                 THEN Returned(p, c, "row", Decoded(r), FALSE, NULL)
                 ELSE Returned(p, c, "error", NoRow, FALSE, "JSONDecodeError")

get_book_status(p, key) ==
    /\ call[p].pc = "idle"
    /\ ret' = BookStatus(p, books, book_statuses, key)
    /\ UNCHANGED <<now, books, book_statuses, book_seq, search_cache, lock, tx, call,
                   connections, schema, search>>

----------------------------------------------------------------------------
(* get_book_statuses_batch and get_status_counts *)

KeyLists ==
    { <<>>,
      <<"/works/OL1W">>,
      <<"/works/OL2W", "/works/OL2W">>,
      <<"/works/OL1W", "/works/OL2W", "/works/OL9W">> }

\* Variant: the SELECT has no WHERE clause.
AllBookStatuses(bs, ss, keys) ==
    LET rows == Join(bs, ss)
    IN  [k \in {r.openlibrary_work_key : r \in rows} |->
            (CHOOSE r \in rows : r.openlibrary_work_key = k).status]

\* SELECT b.openlibrary_work_key, bs.status FROM books b JOIN book_statuses bs
\* ... WHERE b.openlibrary_work_key IN (keys), made into a dict
BookStatusesBatch(bs, ss, keys) ==
    LET rows == {r \in Join(bs, ss) :
                    \E i \in 1..Len(keys) : keys[i] = r.openlibrary_work_key}
    IN  [k \in {r.openlibrary_work_key : r \in rows} |->
            (CHOOSE r \in rows : r.openlibrary_work_key = k).status]

\* Variant: the empty list is not told apart, a connection is opened for it.
BatchBeginConnect(p, keys) ==
    /\ call[p].pc = "idle"
    /\ call' = [call EXCEPT ![p] =
                 [Idle EXCEPT !.name = "get_book_statuses_batch",
                              !.pc = "batch_select", !.keys = keys,
                                      !.foreign_keys = TRUE]]
    /\ ret' = NoRet
    /\ connections < MaxConnections
    /\ connections' = connections + 1
    /\ UNCHANGED <<schema, search>>
    /\ UNCHANGED <<now, books, book_statuses, book_seq, search_cache, lock, tx>>

\* if not openlibrary_work_keys: return {};  else the connection is opened
BatchBegin(p, keys) ==
    /\ call[p].pc = "idle"
    /\ IF keys = <<>>
       THEN /\ ret' = [Returned(p, [Idle EXCEPT !.name = "get_book_statuses_batch"],
                                "map", NoRow, FALSE, NULL) EXCEPT !.map = <<>>]
            /\ UNCHANGED <<call, connections, schema, search>>
       ELSE /\ call' = [call EXCEPT ![p] =
                         [Idle EXCEPT !.name = "get_book_statuses_batch",
                                      !.pc = "batch_select", !.keys = keys,
                                      !.foreign_keys = TRUE]]
            /\ ret' = NoRet
            /\ connections < MaxConnections
            /\ connections' = connections + 1
            /\ UNCHANGED <<schema, search>>
    /\ UNCHANGED <<now, books, book_statuses, book_seq, search_cache, lock, tx>>

BatchSelect(p) ==
    /\ call[p].pc = "batch_select"
    /\ Finish(p, [Returned(p, call[p], "map", NoRow, FALSE, NULL) EXCEPT
                     !.map = BookStatusesBatch(ViewBooks(p), ViewStatuses(p),
                                               call[p].keys)])
    /\ UNCHANGED <<now, books, book_statuses, book_seq, search_cache>>

\* SELECT status, COUNT(*) as count FROM book_statuses GROUP BY status
GroupByStatus(ss) ==
    { [status |-> st, count |-> Cardinality({s \in ss : s.status = st})]
      : st \in {s.status : s \in ss} }

\* Variant: the dict is made of the rows of the query alone.
GroupCounts(ss) ==
    LET rows == GroupByStatus(ss)
    IN  [st \in {r.status : r \in rows} |->
            (CHOOSE r \in rows : r.status = st).count]

\* counts = {"to_read": 0, "did_not_finish": 0, "completed": 0}, then
\* counts[row["status"]] = row["count"] for every row of the query
StatusCounts(ss) ==
    LET rows == GroupByStatus(ss)
    IN  [st \in ValidStatuses \cup {r.status : r \in rows} |->
            IF \E r \in rows : r.status = st
            THEN (CHOOSE r \in rows : r.status = st).count
            ELSE 0]

get_status_counts(p) ==
    /\ call[p].pc = "idle"
    /\ ret' = [Returned(p, [Idle EXCEPT !.name = "get_status_counts"],
                        "map", NoRow, FALSE, NULL) EXCEPT
                  !.map = StatusCounts(book_statuses)]
    /\ UNCHANGED <<now, books, book_statuses, book_seq, search_cache, lock, tx, call,
                   connections, schema, search>>

StatusFilters == {"to_read", "did_not_finish"}

\* The orders in which a SELECT may deliver the rows.
Orders(rows) ==
    {l \in [1..Cardinality(rows) -> rows] :
        \A i, j \in 1..Cardinality(rows) : i # j => l[i] # l[j]}

\* ORDER BY bs.updated_at DESC: a comparison of the timestamp texts.  Rows with
\* equal updated_at come in the order of the scan that the query planner
\* chooses for the statement.
OrderedByUpdatedAt(rows) ==
    {l \in Orders(rows) :
        \A i, j \in 1..Cardinality(rows) :
           i < j => ~TextLess(l[i].updated_at, l[j].updated_at)}

\* results.append(result) for every row, author_name decoded
DecodedRows(l) == [i \in 1..Len(l) |-> Decoded(l[i])]

get_all_book_statuses(p) ==
    /\ call[p].pc = "idle"
    /\ \E l \in OrderedByUpdatedAt(Join(books, book_statuses)) :
          ret' = IF \A i \in 1..Len(l) : JsonDecodes(l[i].author_name)
                 THEN [Returned(p, [Idle EXCEPT !.name = "get_all_book_statuses"],
                                "list", NoRow, FALSE, NULL) EXCEPT
                          !.list = DecodedRows(l)]
                 ELSE Returned(p, [Idle EXCEPT !.name = "get_all_book_statuses"],
                               "error", NoRow, FALSE, "JSONDecodeError")
    /\ UNCHANGED <<now, books, book_statuses, book_seq, search_cache, lock, tx, call,
                   connections, schema, search>>

\* WHERE bs.status = ?
StatusRows(rows, status) == {r \in rows : r.status = status}

get_books_by_status(p, status) ==
    /\ call[p].pc = "idle"
    /\ \E l \in OrderedByUpdatedAt(StatusRows(Join(books, book_statuses), status)) :
          ret' = IF \A i \in 1..Len(l) : JsonDecodes(l[i].author_name)
                 THEN [Returned(p, [Idle EXCEPT !.name = "get_books_by_status",
                                               !.status = status],
                                "list", NoRow, FALSE, NULL) EXCEPT
                          !.list = DecodedRows(l)]
                 ELSE Returned(p, [Idle EXCEPT !.name = "get_books_by_status",
                                              !.status = status],
                               "error", NoRow, FALSE, "JSONDecodeError")
    /\ UNCHANGED <<now, books, book_statuses, book_seq, search_cache, lock, tx, call,
                   connections, schema, search>>

\* One step of handler p reading several records at once.
Reads(p, keylists) ==
    \/ \E keys \in keylists : BatchBegin(p, keys)
    \/ BatchSelect(p)
    \/ get_status_counts(p)
    \/ get_all_book_statuses(p)
    \/ \E status \in StatusFilters : get_books_by_status(p, status)

----------------------------------------------------------------------------
(* Cache keys: generate_cache_key.  Query strings are sequences of
   characters. *)

Lower(c) == IF c = "T" THEN "t" ELSE IF c = "U" THEN "u" ELSE c

LowerStr(q) == [i \in 1..Len(q) |-> Lower(q[i])]

RECURSIVE LStrip(_)
LStrip(q) == IF q # <<>> /\ q[1] = " " THEN LStrip(Tail(q)) ELSE q

RECURSIVE RStrip(_)
RStrip(q) ==
    IF q # <<>> /\ q[Len(q)] = " " THEN RStrip(SubSeq(q, 1, Len(q) - 1)) ELSE q

Strip(q) == RStrip(LStrip(q))

DigitChar(d) == <<"0", "1", "2", "3", "4", "5", "6", "7", "8", "9">>[d + 1]

RECURSIVE Digits(_)
Digits(n) ==
    IF n < 10 THEN <<DigitChar(n)>> ELSE Digits(n \div 10) \o <<DigitChar(n % 10)>>

\* hashlib.sha256(...).hexdigest(): a digest stands for the text it was made of
Sha256(text) == <<"sha256">> \o text

\* Variant: the query is trimmed but not lower-cased.
generate_cache_key_cased(query, page, limit) ==
    Sha256(Strip(query) \o <<":">> \o Digits(page) \o <<":">> \o Digits(limit))

\* Variant: the key string joins its three fields without a separator.
generate_cache_key_joined(query, page, limit) ==
    Sha256(LowerStr(Strip(query)) \o Digits(page) \o Digits(limit))

\* Variant: the page is left out of the key string.
generate_cache_key_unpaged(query, page, limit) ==
    Sha256(LowerStr(Strip(query)) \o <<":">> \o Digits(limit))

generate_cache_key(query, page, limit) ==
    Sha256(LowerStr(Strip(query)) \o <<":">> \o Digits(page) \o <<":">> \o Digits(limit))

----------------------------------------------------------------------------
(* JSON text of a response: a dict, in insertion order, of numbers and lists
   of strings. *)

Num(v) == [t |-> "num", v |-> <<v>>]
List(l) == [t |-> "list", v |-> l]
NumTok(v) == [t |-> "num", v |-> v]

JsonValue(val) == IF val.t = "num" THEN <<NumTok(val.v[1])>> ELSE JsonDumpsList(val.v)

RECURSIVE JsonMembers(_)
JsonMembers(d) ==
    IF d = <<>> THEN <<>>
    ELSE <<StrTok(d[1].k), Punct(":")>> \o JsonValue(d[1].val)
         \o (IF Len(d) = 1 THEN <<>> ELSE <<Punct(",")>>) \o JsonMembers(Tail(d))

JsonDumps(d) == <<Punct("{")>> \o JsonMembers(d) \o <<Punct("}")>>

RECURSIVE JsonParseMembers(_, _)
JsonParseMembers(text, i) ==
    IF text[i] = Punct("}") THEN <<>>
    ELSE IF text[i] = Punct(",") THEN JsonParseMembers(text, i + 1)
    ELSE IF text[i + 2].t = "num"
    THEN <<[k |-> text[i].v, val |-> Num(text[i + 2].v)]>>
         \o JsonParseMembers(text, i + 3)
    ELSE LET j == CHOOSE j \in (i + 2)..Len(text) :
                     /\ text[j] = Punct("]")
                     /\ \A m \in (i + 2)..(j - 1) : text[m] # Punct("]")
         IN  <<[k |-> text[i].v, val |-> List(JsonLoadsList(SubSeq(text, i + 2, j)))]>>
             \o JsonParseMembers(text, j + 1)

JsonLoads(text) == JsonParseMembers(text, 2)

----------------------------------------------------------------------------
(* Cache store *)

Queries == {<<"t">>, <<" ", "T">>, <<"u">>}
Pages == {1}
Limits == {100}
Payloads ==
    { <<>>,
      <<[k |-> "numFound", val |-> Num("3")],
        [k |-> "docs", val |-> List(<<"Cached Book">>)]>> }

\* timedelta(hours=CACHE_TTL_HOURS), in ticks
TtlTicks == (CACHE_TTL_HOURS * TicksPerDay) \div 24

\* WHERE query_hash = ? AND expires_at > datetime('now')
Fresh(sc, query_hash, t) ==
    {r \in sc : r.query_hash = query_hash /\ TextLess(SqliteDatetime(t), r.expires_at)}

\* Variant: the expiry is compared as a point in time.
ExpiredByInstant(sc, t) == {r \in sc : r.expires_at[1] * TicksPerDay + r.expires_at[3] <= t}

\* WHERE expires_at < datetime('now')
Expired(sc, t) == {r \in sc : TextLess(r.expires_at, SqliteDatetime(t))}

\* Variant: INSERT OR IGNORE, the row already stored for the hash stays.
InsertOrIgnore(sc, c) ==
    IF \E r \in sc : r.query_hash = c.query_hash THEN sc
    ELSE sc \cup { [query_hash |-> c.query_hash, query |-> c.query, page |-> c.page,
                    limit_val |-> c.limit, response_json |-> c.response_json,
                    expires_at |-> c.expires_at] }

\* INSERT OR REPLACE INTO search_cache ...: query_hash is UNIQUE
InsertOrReplace(sc, c) ==
    {r \in sc : r.query_hash # c.query_hash}
    \cup { [query_hash |-> c.query_hash, query |-> c.query, page |-> c.page,
            limit_val |-> c.limit, response_json |-> c.response_json,
            expires_at |-> c.expires_at] }

\* What get_cached_response returns at time t on the committed rows sc.
CachedResponse(p, sc, query, page, limit, t) ==
    LET c == [Idle EXCEPT !.name = "get_cached_response", !.query = query,
                          !.page = page, !.limit = limit]
        rows == Fresh(sc, generate_cache_key(query, page, limit), t)
    IN  IF rows = {} THEN Returned(p, c, "none", NoRow, FALSE, NULL)
        ELSE [Returned(p, c, "payload", NoRow, FALSE, NULL) EXCEPT
                 !.payload = JsonLoads((CHOOSE r \in rows : TRUE).response_json)]

\* Variant: a get removes the expired rows it comes across.
get_cached_response_evicting(p, query, page, limit) ==
    /\ call[p].pc = "idle"
    /\ lock = NoProc
    /\ ret' = CachedResponse(p, search_cache, query, page, limit, now)
    /\ search_cache' = search_cache \ Expired(search_cache, now)
    /\ UNCHANGED <<now, books, book_statuses, book_seq, lock, tx, call, connections, schema, search>>

get_cached_response(p, query, page, limit) ==
    /\ call[p].pc = "idle"
    /\ ret' = CachedResponse(p, search_cache, query, page, limit, now)
    /\ UNCHANGED <<now, books, book_statuses, book_seq, search_cache, lock, tx, call,
                   connections, schema, search>>

\* The locals of store_cached_response when its connection is open, t being
\* the time of the call.
StoreCall(query, page, limit, response, t) ==
    [Idle EXCEPT !.name = "store_cached_response", !.pc = "store_insert",
                 !.foreign_keys = TRUE,
                 !.query = query, !.page = page, !.limit = limit,
                 !.query_hash = generate_cache_key(query, page, limit),
                 !.response_json = JsonDumps(response),
                 !.expires_at = IsoFormat(t + TtlTicks)]

StoreBegin(p, query, page, limit, response) ==
    /\ call[p].pc = "idle"
    /\ call' = [call EXCEPT ![p] = StoreCall(query, page, limit, response, now)]
    /\ ret' = NoRet
    /\ connections < MaxConnections
    /\ connections' = connections + 1
    /\ UNCHANGED <<schema, search>>
    /\ UNCHANGED <<now, books, book_statuses, book_seq, search_cache, lock, tx>>

StoreInsert(p) ==
    /\ call[p].pc = "store_insert"
    /\ CanWrite(p)
    /\ Begin(p, ViewBooks(p), ViewStatuses(p), ViewSeq(p),
             InsertOrReplace(ViewCache(p), call[p]))
    /\ call' = [call EXCEPT ![p].pc = "store_commit"]
    /\ UNCHANGED <<now, ret, connections, schema, search>>

StoreCommit(p) ==
    /\ call[p].pc = "store_commit"
    /\ Commit(p)
    /\ Return(p, "none", NoRow, FALSE)
    /\ UNCHANGED now

\* A statement DELETE FROM search_cache ..., which opens the call named name
\* and keeps the rows `keep`.
CacheDelete(p, name, pc, c, keep) ==
    /\ call[p].pc = "idle"
    /\ CanWrite(p)
    /\ Begin(p, ViewBooks(p), ViewStatuses(p), ViewSeq(p), keep)
    /\ call' = [call EXCEPT ![p] =
                 [c EXCEPT !.name = name, !.pc = pc, !.foreign_keys = TRUE,
                           !.rowcount = Cardinality(search_cache \ keep)]]
    /\ ret' = NoRet
    /\ connections < MaxConnections
    /\ connections' = connections + 1
    /\ UNCHANGED <<schema, search>>
    /\ UNCHANGED now

\* Variant: the DELETE tells rows apart by expiry only and removes just the
\* unexpired row of the request.
InvalidateDeleteFresh(p, query, page, limit) ==
    CacheDelete(p, "invalidate_cache", "invalidate_commit",
                [Idle EXCEPT !.query = query, !.page = page, !.limit = limit,
                             !.query_hash = generate_cache_key(query, page, limit)],
                search_cache \ Fresh(search_cache,
                                     generate_cache_key(query, page, limit), now))

\* DELETE FROM search_cache WHERE query_hash = ?
InvalidateDelete(p, query, page, limit) ==
    CacheDelete(p, "invalidate_cache", "invalidate_commit",
                [Idle EXCEPT !.query = query, !.page = page, !.limit = limit,
                             !.query_hash = generate_cache_key(query, page, limit)],
                {r \in search_cache :
                    r.query_hash # generate_cache_key(query, page, limit)})

InvalidateCommit(p) ==
    /\ call[p].pc = "invalidate_commit"
    /\ Commit(p)
    /\ Return(p, "bool", NoRow, call[p].rowcount > 0)
    /\ UNCHANGED now

\* Variant: only the expired rows are removed.
ClearAllExpired(p) ==
    CacheDelete(p, "clear_all_cache", "clear_all_commit", Idle,
                search_cache \ Expired(search_cache, now))

\* DELETE FROM search_cache
ClearAllDelete(p) == CacheDelete(p, "clear_all_cache", "clear_all_commit", Idle, {})

ClearAllCommit(p) ==
    /\ call[p].pc = "clear_all_commit"
    /\ Commit(p)
    /\ Finish(p, [Returned(p, call[p], "int", NoRow, FALSE, NULL) EXCEPT
                     !.int = call[p].rowcount])
    /\ UNCHANGED now

ClearExpiredDelete(p) ==
    CacheDelete(p, "clear_expired_cache", "clear_expired_commit", Idle,
                search_cache \ Expired(search_cache, now))

ClearExpiredCommit(p) ==
    /\ call[p].pc = "clear_expired_commit"
    /\ Commit(p)
    /\ Finish(p, [Returned(p, call[p], "int", NoRow, FALSE, NULL) EXCEPT
                     !.int = call[p].rowcount])
    /\ UNCHANGED now

\* One step of handler p on the cache store.
Cache(p, queries, pages, limits, payloads) ==
    \/ \E q \in queries, page \in pages, limit \in limits :
          \/ get_cached_response(p, q, page, limit)
          \/ \E response \in payloads : StoreBegin(p, q, page, limit, response)
          \/ InvalidateDelete(p, q, page, limit)
    \/ StoreInsert(p)
    \/ StoreCommit(p)
    \/ InvalidateCommit(p)
    \/ ClearAllDelete(p)
    \/ ClearAllCommit(p)
    \/ ClearExpiredDelete(p)
    \/ ClearExpiredCommit(p)
    \/ Fail(p)

----------------------------------------------------------------------------
(* The library store *)

\* One step of handler p, its inputs drawn from the given sets.
Library(p, keys, statuses, metas) ==
    \/ \E key \in keys, status \in statuses, meta \in metas :
          SetBegin(p, key, status, meta)
    \/ SetUpsertBook(p)
    \/ SetSelectId(p)
    \/ SetUpsertStatus(p)
    \/ SetCommit(p)
    \/ SetReadBack(p)
    \/ \E key \in keys : DelBegin(p, key)
    \/ DelSelectId(p)
    \/ DelStatus(p)
    \/ DelBook(p)
    \/ DelCommit(p)
    \/ \E key \in keys : get_book_status(p, key)
    \/ Fail(p)

\* Requests served one after the other.
Next ==
    \/ Tick(MaxTime)
    \/ Library("h1", Keys, StatusInputs, Metas)
    \/ Reads("h1", KeyLists)

Spec == Init /\ [][Next]_vars

\* Two request handlers running concurrently on one key.
NextConc ==
    \/ Tick(MaxTime)
    \/ \E p \in Procs : Library(p, ConcKeys, ConcStatusInputs, ConcMetas)

SpecConc == Init /\ [][NextConc]_vars

\* Requests on a single key, served one after the other.
NextAgain ==
    \/ Tick(MaxTime)
    \/ Library("h1", ConcKeys, StatusInputs, Metas)

SpecAgain == Init /\ [][NextAgain]_vars

\* The cache store, while the clock runs past the time to live.
NextCache ==
    \/ Tick(MaxCacheTime)
    \/ Cache("h1", Queries, Pages, Limits, Payloads)

SpecCache == Init /\ [][NextCache]_vars

KeyQueries == {<<"t">>, <<" ", "T", " ">>}
KeyPages == {1, 11}
KeyLimits == {1, 11}
KeyPayloads == {<<>>}

\* The cache store under requests that differ in spelling, page and limit.
NextKey == Cache("h1", KeyQueries, KeyPages, KeyLimits, KeyPayloads)

SpecKey == Init /\ [][NextKey]_vars

ConcQueries == {<<"t">>, <<" ", "T">>}

\* One step of handler p storing or reading cache entries.
CacheStore(p, queries, pages, limits, payloads) ==
    \/ \E q \in queries, page \in pages, limit \in limits :
          \/ get_cached_response(p, q, page, limit)
          \/ \E response \in payloads : StoreBegin(p, q, page, limit, response)
    \/ StoreInsert(p)
    \/ StoreCommit(p)
    \/ Fail(p)

ColonQueries == {<<"t">>, <<"T">>, <<"t", "1">>, <<"t", ":", "1">>}
ColonPages == {1, 11}
ColonLimits == {1}

\* The cache store under queries that contain ':' and digits.
NextColon == CacheStore("h1", ColonQueries, ColonPages, ColonLimits, Payloads)

SpecColon == Init /\ [][NextColon]_vars

\* Two request handlers storing under one fingerprint concurrently.
NextCacheConc ==
    \/ Tick(MaxTime)
    \/ \E p \in Procs : CacheStore(p, ConcQueries, Pages, Limits, Payloads)

SpecCacheConc == Init /\ [][NextCacheConc]_vars

----------------------------------------------------------------------------
(* get_db_connection around the body of any async with block.  In the
   operations above the connection is opened by the step that starts the
   call, its PRAGMA succeeding; here the steps of get_db_connection are taken
   one by one. *)

PragmaErrors == {"OperationalError", "CancelledError"}
ExitOutcomes == {"return", "OperationalError", "CancelledError"}

\* db = await aiosqlite.connect(str(path))
Connect(p) ==
    /\ call[p].pc = "idle"
    /\ connections < MaxConnections
    /\ connections' = connections + 1
    /\ UNCHANGED <<schema, search>>
    /\ call' = [call EXCEPT ![p] =
                 [Idle EXCEPT !.name = "get_db_connection", !.pc = "pragma"]]
    /\ ret' = NoRet
    /\ UNCHANGED <<now, books, book_statuses, book_seq, search_cache, lock, tx>>

\* Variant: the connection is handed over as it was opened.
PragmaSkipped(p) ==
    /\ call[p].pc = "pragma"
    /\ call' = [call EXCEPT ![p].pc = "yield"]
    /\ UNCHANGED <<now, books, book_statuses, book_seq, search_cache, lock, tx, ret,
                   connections, schema, search>>

\* await db.execute("PRAGMA foreign_keys = ON"), then try: yield db
Pragma(p) ==
    /\ call[p].pc = "pragma"
    /\ call' = [call EXCEPT ![p].pc = "yield", ![p].foreign_keys = TRUE]
    /\ UNCHANGED <<now, books, book_statuses, book_seq, search_cache, lock, tx, ret,
                   connections, schema, search>>

\* The PRAGMA statement raises, or the task is cancelled while awaiting it:
\* the statement stands before the try, so the finally clause does not run.
PragmaFail(p, err) ==
    /\ call[p].pc = "pragma"
    /\ call' = [call EXCEPT ![p] = Idle]
    /\ ret' = Returned(p, call[p], "error", NoRow, FALSE, err)
    /\ UNCHANGED <<now, books, book_statuses, book_seq, search_cache, lock, tx,
                   connections, schema, search>>

\* The body of the async with block runs its first statement on db.
Execute(p) ==
    /\ call[p].pc = "yield"
    /\ call' = [call EXCEPT ![p].pc = "executed"]
    /\ UNCHANGED <<now, books, book_statuses, book_seq, search_cache, lock, tx, ret,
                   connections, schema, search>>

\* The body of the async with block ends; finally: await db.close()
Exit(p, outcome) ==
    /\ call[p].pc \in {"yield", "executed"}
    /\ IF outcome = "return"
       THEN /\ Return(p, "none", NoRow, FALSE)
            /\ UNCHANGED <<books, book_statuses, book_seq, search_cache>>
       ELSE Raise(p, outcome)
    /\ UNCHANGED now

NextConn ==
    \E p \in Procs :
       \/ Connect(p)
       \/ Pragma(p)
       \/ \E err \in PragmaErrors : PragmaFail(p, err)
       \/ Execute(p)
       \/ \E outcome \in ExitOutcomes : Exit(p, outcome)

SpecConn == Init /\ [][NextConn]_vars

----------------------------------------------------------------------------
(* The search handler, GET /api/books/search.  A message of OpenLibraryError
   is a list of words and separators. *)

SearchQueries == {<<"t">>}

OpenLibraryErrors ==
    { [message |-> <<"Request", " ", "to", " ", "OpenLibrary", " ", "timed", " ", "out">>,
       status_code |-> NULL],
      [message |-> <<"OpenLibrary", " ", "API", " ", "error:", " ", "500">>,
       status_code |-> "500"],
      [message |-> <<"Failed", " ", "to", " ", "connect", " ", "to", " ",
                     "OpenLibrary:", " ", "Read", " ", "Timed", " ", "Out">>,
       status_code |-> NULL],
      [message |-> <<"Failed", " ", "to", " ", "connect", " ", "to", " ",
                     "OpenLibrary:", " ", "timed", ",", " ", "out">>,
       status_code |-> NULL] }

\* str.lower() on one word
LowerWord(w) ==
    CASE w = "Request" -> "request"
      [] w = "OpenLibrary" -> "openlibrary"
      [] w = "OpenLibrary:" -> "openlibrary:"
      [] w = "API" -> "api"
      [] w = "Failed" -> "failed"
      [] w = "Read" -> "read"
      [] w = "Timed" -> "timed"
      [] w = "Out" -> "out"
      [] OTHER -> w

\* e.message.lower()
LowerText(text) == [i \in 1..Len(text) |-> LowerWord(text[i])]

\* needle in text
Contains(text, needle) ==
    \E i \in 1..(Len(text) - Len(needle) + 1) :
       SubSeq(text, i, i + Len(needle) - 1) = needle

\* Variant: the message is searched as it is written.
ErrorStatusCased(e) ==
    IF Contains(e.message, <<"timed", " ", "out">>) THEN 504
    ELSE IF e.status_code # NULL THEN 502
    ELSE 502

\* The status code of the HTTPException raised for an OpenLibraryError.
ErrorStatus(e) ==
    IF Contains(LowerText(e.message), <<"timed", " ", "out">>) THEN 504
    ELSE IF e.status_code # NULL THEN 502
    ELSE 502

\* if cached_response:  -- None is false, and so is a dict without members
Truthy(r) == r.kind = "payload" /\ r.payload # <<>>

\* raw_response.get(k, default)
DictGet(d, k, default) ==
    IF \E i \in 1..Len(d) : d[i].k = k
    THEN d[CHOOSE i \in 1..Len(d) : d[i].k = k].val
    ELSE default

IntOf(s) == CHOOSE d \in 0..9 : DigitChar(d) = s

\* A doc is written as its work key.
parse_book_from_doc(doc) == [openlibrary_work_key |-> doc, status |-> NULL]

\* Variant: the number of pages is rounded down.
parse_search_response_floor(raw_response, page, limit) ==
    LET docs == DictGet(raw_response, "docs", List(<<>>)).v
        total == IntOf(DictGet(raw_response, "numFound",
                               DictGet(raw_response, "num_found", Num("0"))).v[1])
    IN  [books |-> [i \in 1..Len(docs) |-> parse_book_from_doc(docs[i])],
         total |-> total,
         page |-> page,
         total_pages |-> IF limit > 0 THEN total \div limit ELSE 0]

parse_search_response(raw_response, page, limit) ==
    LET docs == DictGet(raw_response, "docs", List(<<>>)).v
        total == IntOf(DictGet(raw_response, "numFound",
                               DictGet(raw_response, "num_found", Num("0"))).v[1])
    IN  [books |-> [i \in 1..Len(docs) |-> parse_book_from_doc(docs[i])],
         total |-> total,
         page |-> page,
         total_pages |-> IF limit > 0 THEN (total + limit - 1) \div limit ELSE 0]

enrich_books_with_status(response, bs, ss) ==
    IF response.books = <<>> THEN response
    ELSE LET book_keys == [i \in 1..Len(response.books) |->
                             response.books[i].openlibrary_work_key]
             statuses == BookStatusesBatch(bs, ss, book_keys)
         IN  [response EXCEPT !.books =
                [i \in 1..Len(response.books) |->
                   IF book_keys[i] \in DOMAIN statuses
                   THEN [response.books[i] EXCEPT !.status = statuses[book_keys[i]]]
                   ELSE response.books[i]]]

\* What the handler of p answers, f being its frame at the end.
Answer(p, f, code, response, message) ==
    [NoRet EXCEPT !.proc = p, !.name = "search", !.kind = "response",
                  !.query = f.q, !.page = f.page, !.limit = f.limit,
                  !.code = code, !.response = response, !.message = message,
                  !.payload = f.raw_response, !.cached = f.cached,
                  !.fetched = f.fetched, !.stored = f.stored]

SearchBegin(p, q, page, limit) ==
    /\ search[p].pc = "idle"
    /\ call[p].pc = "idle"
    /\ search' = [search EXCEPT ![p] =
                   [NoSearch EXCEPT !.pc = "lookup", !.q = q, !.page = page,
                                    !.limit = limit]]
    /\ UNCHANGED <<now, books, book_statuses, book_seq, search_cache, lock, tx, call,
                   ret, connections, schema>>

\* cached_response = await get_cached_response(q, page, limit)
SearchLookup(p) ==
    /\ search[p].pc = "lookup"
    /\ LET r == CachedResponse(p, search_cache, search[p].q, search[p].page,
                               search[p].limit, now)
       IN  /\ ret' = r
           /\ search' = [search EXCEPT ![p] =
                 IF Truthy(r)
                 THEN [@ EXCEPT !.pc = "enrich", !.raw_response = r.payload,
                                !.cached = TRUE]
                 ELSE [@ EXCEPT !.pc = "fetch"]]
    /\ UNCHANGED <<now, books, book_statuses, book_seq, search_cache, lock, tx, call,
                   connections, schema>>

\* raw_response = await search_books(q, page, limit) returns
SearchFetch(p, raw_response) ==
    /\ search[p].pc = "fetch"
    /\ search' = [search EXCEPT ![p].pc = "store_begin",
                                ![p].raw_response = raw_response,
                                ![p].fetched = @ + 1]
    /\ UNCHANGED <<now, books, book_statuses, book_seq, search_cache, lock, tx, call,
                   ret, connections, schema>>

\* Variant: a failed fetch is remembered in the cache as an empty result
\* before the error is answered.
SearchFetchFailCached(p, e) ==
    /\ search[p].pc = "fetch"
    /\ lock = NoProc
    /\ search_cache' = InsertOrReplace(search_cache,
                                       StoreCall(search[p].q, search[p].page,
                                                 search[p].limit, <<>>, now))
    /\ ret' = [Answer(p, [search[p] EXCEPT !.fetched = @ + 1], ErrorStatus(e),
                      NoResponse, e.message)
                 EXCEPT !.error = "OpenLibraryError"]
    /\ search' = [search EXCEPT ![p] = NoSearch]
    /\ UNCHANGED <<now, books, book_statuses, book_seq, lock, tx, call,
                   connections, schema>>

\* search_books raises OpenLibraryError e: the handler raises HTTPException
SearchFetchFail(p, e) ==
    /\ search[p].pc = "fetch"
    /\ ret' = [Answer(p, [search[p] EXCEPT !.fetched = @ + 1], ErrorStatus(e),
                      NoResponse, e.message)
                 EXCEPT !.error = "OpenLibraryError"]
    /\ search' = [search EXCEPT ![p] = NoSearch]
    /\ UNCHANGED <<now, books, book_statuses, book_seq, search_cache, lock, tx, call,
                   connections, schema>>

\* await store_cached_response(q, page, limit, raw_response): the connection
SearchStoreBegin(p) ==
    /\ search[p].pc = "store_begin"
    /\ call[p].pc = "idle"
    /\ call' = [call EXCEPT ![p] =
                 StoreCall(search[p].q, search[p].page, search[p].limit,
                           search[p].raw_response, now)]
    /\ search' = [search EXCEPT ![p].pc = "store_insert", ![p].stored = @ + 1]
    /\ connections < MaxConnections
    /\ connections' = connections + 1
    /\ UNCHANGED <<now, books, book_statuses, book_seq, search_cache, lock, tx, ret,
                   schema>>

\* ... its INSERT OR REPLACE
SearchStoreInsert(p) ==
    /\ search[p].pc = "store_insert"
    /\ CanWrite(p)
    /\ Begin(p, ViewBooks(p), ViewStatuses(p), ViewSeq(p),
             InsertOrReplace(ViewCache(p), call[p]))
    /\ call' = [call EXCEPT ![p].pc = "store_commit"]
    /\ search' = [search EXCEPT ![p].pc = "store_commit"]
    /\ UNCHANGED <<now, ret, connections, schema>>

\* ... its commit, and the connection is closed
SearchStoreCommit(p) ==
    /\ search[p].pc = "store_commit"
    /\ Commit(p)
    /\ Close(p)
    /\ connections' = connections - 1
    /\ call' = [call EXCEPT ![p] = Idle]
    /\ ret' = Returned(p, call[p], "none", NoRow, FALSE, NULL)
    /\ search' = [search EXCEPT ![p].pc = "enrich"]
    /\ UNCHANGED <<now, schema>>

\* response = parse_search_response(...); return await
\* enrich_books_with_status(response)
SearchEnrich(p) ==
    /\ search[p].pc = "enrich"
    /\ ret' = Answer(p, search[p], 200,
                     enrich_books_with_status(
                        parse_search_response(search[p].raw_response,
                                              search[p].page, search[p].limit),
                        books, book_statuses),
                     <<>>)
    /\ search' = [search EXCEPT ![p] = NoSearch]
    /\ UNCHANGED <<now, books, book_statuses, book_seq, search_cache, lock, tx, call,
                   connections, schema>>

\* An await of the handler raises something else than OpenLibraryError (a
\* storage error, a cancellation): an open connection is closed uncommitted
\* and the request is answered with an internal error.
SearchFail(p) ==
    /\ search[p].pc # "idle"
    /\ Rollback(p)
    /\ Close(p)
    /\ connections' = IF call[p].pc = "idle" THEN connections ELSE connections - 1
    /\ call' = [call EXCEPT ![p] = Idle]
    /\ ret' = [Answer(p, search[p], 500, NoResponse, <<>>) EXCEPT !.error = "Aborted"]
    /\ search' = [search EXCEPT ![p] = NoSearch]
    /\ UNCHANGED <<now, schema>>

\* One step of handler p answering search requests.
Search(p, queries, pages, limits, payloads, errors) ==
    \/ \E q \in queries, page \in pages, limit \in limits :
          SearchBegin(p, q, page, limit)
    \/ SearchLookup(p)
    \/ \E raw_response \in payloads : SearchFetch(p, raw_response)
    \/ \E e \in errors : SearchFetchFail(p, e)
    \/ SearchStoreBegin(p)
    \/ SearchStoreInsert(p)
    \/ SearchStoreCommit(p)
    \/ SearchEnrich(p)
    \/ SearchFail(p)

NextSearch ==
    \/ Tick(MaxCacheTime)
    \/ \E p \in Procs :
          Search(p, SearchQueries, Pages, Limits, Payloads, OpenLibraryErrors)

SpecSearch == Init /\ [][NextSearch]_vars

----------------------------------------------------------------------------
(* The status routes, GET and DELETE /api/books/status/{key}: the answer to
   the outcome r of the database call.  An exception of the call leaves the
   handler and is answered as an internal error. *)

\* if not status: raise HTTPException(404); a record has eight members, so
\* None alone is false
get_status(r) ==
    IF r.kind = "error" THEN 500
    ELSE IF r.kind = "none" THEN 404
    ELSE 200

\* Variant: only a missing result is answered as not found.
remove_status_none(r) ==
    IF r.kind = "error" THEN 500
    ELSE IF r.kind = "none" THEN 404
    ELSE 204

\* if not deleted: raise HTTPException(404); status_code=204 otherwise
remove_status(r) ==
    IF r.kind = "error" THEN 500
    ELSE IF ~r.bool THEN 404
    ELSE 204

\* The handler of p answers the request whose database call has ended.
Respond(p) ==
    /\ call[p].pc = "idle"
    /\ ret.proc = p
    /\ ret.code = 0
    /\ \/ /\ ret.name = "get_book_status"
          /\ ret' = [ret EXCEPT !.code = get_status(ret)]
       \/ /\ ret.name = "delete_book_status"
          /\ ret' = [ret EXCEPT !.code = remove_status(ret)]
    /\ UNCHANGED <<now, books, book_statuses, book_seq, search_cache, lock, tx, call,
                   connections, schema, search>>

RouteStatuses == {"to_read"}

\* Two handlers of the status routes.
NextRoute ==
    \E p \in Procs :
       \/ Library(p, ConcKeys, RouteStatuses, ConcMetas)
       \/ Respond(p)

SpecRoute == Init /\ [][NextRoute]_vars

----------------------------------------------------------------------------
(* The library store called with an author_name that is a str instead of a
   list of str: json.dumps stores it as a JSON string. *)

AuthorMetas ==
    ConcMetas \cup
    { [title |-> "Book One", author_name |-> <<"str", "Author One">>,
       cover_url |-> NULL, first_publish_year |-> NULL] }

NextAuthors ==
    \/ Library("h1", Keys, RouteStatuses, AuthorMetas)
    \/ get_all_book_statuses("h1")
    \/ \E status \in StatusFilters : get_books_by_status("h1", status)

SpecAuthors == Init /\ [][NextAuthors]_vars

----------------------------------------------------------------------------
(* init_database.  The sqlite3 module opens no transaction for a CREATE
   statement, so each one takes effect when it is executed and the commit at
   the end has nothing pending. *)

\* A database file on which init_database has not run yet.
EmptyFile ==
    /\ now = 0
    /\ books = {}
    /\ book_statuses = {}
    /\ book_seq = 0
    /\ search_cache = {}
    /\ lock = NoProc
    /\ tx = [p \in Procs |-> NoTx]
    /\ call = [p \in Procs |-> Idle]
    /\ ret = NoRet
    /\ connections = 0
    /\ schema = {}
    /\ search = [p \in Procs |-> NoSearch]

\* Variant: CREATE TABLE / CREATE INDEX without the IF NOT EXISTS clause.
Unconditional(sch, obj) == FALSE

\* IF NOT EXISTS: the statement does nothing when the object is there.
IfNotExists(sch, obj) == obj \in sch

InitBegin(p) ==
    /\ call[p].pc = "idle"
    /\ call' = [call EXCEPT ![p] =
                 [Idle EXCEPT !.name = "init_database", !.pc = "init_create",
                              !.foreign_keys = TRUE, !.statement = 1]]
    /\ connections < MaxConnections
    /\ connections' = connections + 1
    /\ UNCHANGED <<now, books, book_statuses, book_seq, search_cache, lock, tx, ret,
                   schema, search>>

\* await db.execute("CREATE ... IF NOT EXISTS ..."), one statement per step
InitCreate(p) ==
    /\ call[p].pc = "init_create"
    /\ LET obj == Statements[call[p].statement]
           next == [call EXCEPT ![p].statement = @ + 1,
                                ![p].pc = IF call[p].statement = Len(Statements)
                                          THEN "init_commit" ELSE "init_create"]
       IN  IF IfNotExists(schema, obj)
           THEN /\ call' = next
                /\ UNCHANGED <<books, book_statuses, book_seq, search_cache, lock,
                               tx, ret, connections, schema, search>>
           ELSE IF obj \in schema
           THEN Raise(p, "OperationalError")
           ELSE /\ CanWrite(p)
                /\ schema' = schema \cup {obj}
                /\ call' = next
                /\ UNCHANGED <<books, book_statuses, book_seq, search_cache, lock,
                               tx, ret, connections, search>>
    /\ UNCHANGED now

\* await db.commit(), then the connection scope is left
InitCommit(p) ==
    /\ call[p].pc = "init_commit"
    /\ Commit(p)
    /\ Return(p, "none", NoRow, FALSE)
    /\ UNCHANGED now

init_database(p) ==
    \/ InitBegin(p)
    \/ InitCreate(p)
    \/ InitCommit(p)

InitQueries == {<<"t">>}
InitStatuses == {"to_read"}

\* A request handler at work: the application serves requests once lifespan
\* has initialized the store.
Serve(p) ==
    /\ schema = SchemaObjects
    /\ \/ Library(p, ConcKeys, InitStatuses, ConcMetas)
       \/ CacheStore(p, InitQueries, Pages, Limits, Payloads)

\* init_database called again and again, from a new database file on, next to
\* a handler that writes to the three tables.
NextInit ==
    \/ init_database("h2")
    \/ Serve("h1")

SpecInit == EmptyFile /\ [][NextInit]_vars

----------------------------------------------------------------------------
(* The library store and the search cache in one database file. *)

\* One handler calling the library operations and the cache operations.
NextBoth ==
    \/ Library("h1", Keys, RouteStatuses, ConcMetas)
    \/ Cache("h1", ConcQueries, Pages, Limits, KeyPayloads)

SpecBoth == Init /\ [][NextBoth]_vars

----------------------------------------------------------------------------
(* parse_search_response on its own, called with any total and any limit. *)

ParseTotals == 0..9
ParseLimits == (0 - 1)..4 \cup {100}

\* The raw responses with total matches and no docs, the total under either
\* of its two names.
RawResponses ==
    { <<[k |-> name, val |-> Num(DigitChar(total))],
        [k |-> "docs", val |-> List(<<>>)]>>
      : name \in {"numFound", "num_found"}, total \in ParseTotals }

\* A call of parse_search_response by p.
Parse(p, raw_response, page, limit) ==
    /\ call[p].pc = "idle"
    /\ ret' = [NoRet EXCEPT !.proc = p, !.name = "parse_search_response",
                            !.kind = "response", !.page = page, !.limit = limit,
                            !.payload = raw_response,
                            !.response = parse_search_response(raw_response, page,
                                                               limit)]
    /\ UNCHANGED <<now, books, book_statuses, book_seq, search_cache, lock, tx, call,
                   connections, schema, search>>

NextParse ==
    \E raw_response \in RawResponses, limit \in ParseLimits :
       Parse("h1", raw_response, 1, limit)

SpecParse == Init /\ [][NextParse]_vars

----------------------------------------------------------------------------
(* Properties *)

\* Books of bs that no row of ss references.
Orphans(bs, ss) == {b \in bs : ~\E s \in ss : s.book_id = b.id}

\* The step in which handler p commits the call it is running.
Commits(p, pc) ==
    /\ call[p].pc = pc
    /\ call'[p].pc # pc
    /\ ~(call'[p].pc = "idle" /\ ret'.kind = "error")

\* The instant a timestamp text denotes, in ticks.
Instant(text) == text[1] * TicksPerDay + text[3]

\* C1: in every committed state a books row exists iff exactly one
\* book_statuses row references it: no book without a status, no status
\* without a book.
C1_BookIffStatus ==
    /\ \A b \in books : Cardinality({s \in book_statuses : s.book_id = b.id}) = 1
    /\ \A s \in book_statuses : \E b \in books : b.id = s.book_id

\* A set_book_status call was rejected while another book is stored.
C1_Witness ==
    /\ ret.name = "set_book_status"
    /\ ret.error = "IntegrityError"
    /\ \E b \in books : b.openlibrary_work_key # ret.key

\* C2: from the moment delete_book_status has deleted the status row until it
\* commits, the committed tables do not change (a failure leaves the state of
\* before the call) and no other handler reads a book whose status is gone.
C2_DeleteAtomic ==
    [][ \A p \in Procs :
          (call[p].name = "delete_book_status" /\ call[p].pc \in {"del_book", "del_commit"})
          => /\ \A q \in Procs \ {p} : Orphans(ViewBooks(q), ViewStatuses(q)) = {}
             /\ \/ Commits(p, "del_commit")
                \/ UNCHANGED <<books, book_statuses, book_seq>> ]_vars

\* A delete_book_status failed after both deletes and the book still has its
\* status.
C2_Witness ==
    /\ ret.name = "delete_book_status"
    /\ ret.error = "Aborted"
    /\ ret.pc = "del_commit"
    /\ JoinFor(books, book_statuses, ret.key) # {}

\* C3 (as stated): a get at or after the instant of expiry (24 hours after the
\* store) returns absent, and a get for a request never stored returns absent.
C3_ExpiredIsAbsent ==
    \A q \in Queries, page \in Pages, limit \in Limits :
       LET rows == {r \in search_cache :
                       r.query_hash = generate_cache_key(q, page, limit)}
           got == CachedResponse("h1", search_cache, q, page, limit, now)
       IN  /\ rows = {} => got.kind = "none"
           /\ \A r \in rows : now >= Instant(r.expires_at) => got.kind = "none"

\* C4: before the entry expires, a get whose query equals the stored one after
\* trimming and lower-casing returns exactly the payload that was stored.
C4_PutThenGet ==
    \A r \in search_cache, response \in Payloads, q2 \in Queries :
       ( /\ r.response_json = JsonDumps(response)
         /\ LowerStr(Strip(q2)) = LowerStr(Strip(r.query))
         /\ now < Instant(r.expires_at) )
       => LET got == CachedResponse("h1", search_cache, q2, r.page, r.limit_val, now)
          IN  got.kind = "payload" /\ got.payload = response

\* An empty payload was returned for a query spelled differently from the
\* stored one.
C4_Witness ==
    /\ ret.name = "get_cached_response"
    /\ ret.kind = "payload"
    /\ ret.payload = <<>>
    /\ \E r \in search_cache :
          /\ r.query # ret.query
          /\ r.query_hash = generate_cache_key(ret.query, ret.page, ret.limit)
          /\ now < Instant(r.expires_at)

\* C5 (as stated): clear_expired_cache deletes exactly the rows whose
\* expires_at is at or before the current time and counts them.
C5_SweepExact ==
    [][ \A p \in Procs :
          (call[p].pc = "idle" /\ call'[p].name = "clear_expired_cache")
          => /\ tx'[p].search_cache =
                   {r \in search_cache : Instant(r.expires_at) > now}
             /\ call'[p].rowcount =
                   Cardinality({r \in search_cache : Instant(r.expires_at) <= now}) ]_vars

\* C6: the first set_book_status for a key stores created_at = updated_at = the
\* time of the call; a later one keeps created_at and sets updated_at to the
\* time of its call.
C6_Timestamps ==
    [][ \A p \in Procs :
          Commits(p, "set_commit")
          => LET old == JoinFor(books, book_statuses, call[p].key)
                 new == JoinFor(books', book_statuses', call[p].key)
             IN  /\ Cardinality(new) = 1
                 /\ \A n \in new :
                       /\ n.updated_at = call[p].now
                       /\ IF old = {} THEN n.created_at = call[p].now
                          ELSE \A o \in old : n.created_at = o.created_at ]_vars

\* A set_book_status returned a record updated after it was created.
C6_Witness ==
    /\ ret.name = "set_book_status"
    /\ ret.kind = "row"
    /\ ret.row.created_at # ret.row.updated_at

\* C7: after set_book_status on an existing key, get_book_status returns the
\* status, title, authors, cover_url and first_publish_year of that call, an
\* omitted optional field being absent.
C7_OverwriteAll ==
    [][ \A p \in Procs :
          (Commits(p, "set_commit") /\ JoinFor(books, book_statuses, call[p].key) # {})
          => LET got == BookStatus(p, books', book_statuses', call[p].key)
             IN  /\ got.kind = "row"
                 /\ got.row.status = call[p].status
                 /\ got.row.title = call[p].meta.title
                 /\ got.row.author_name = call[p].meta.author_name
                 /\ got.row.cover_url = call[p].meta.cover_url
                 /\ got.row.first_publish_year = call[p].meta.first_publish_year ]_vars

\* A call that omits the optional fields is about to commit over a record that
\* has them.
C7_Witness ==
    \E p \in Procs :
       /\ call[p].pc = "set_commit"
       /\ call[p].meta.cover_url = NULL
       /\ call[p].meta.first_publish_year = NULL
       /\ \E r \in JoinFor(books, book_statuses, call[p].key) :
             r.cover_url # NULL /\ r.first_publish_year # NULL
       /\ \E b \in tx[p].books :
             b.openlibrary_work_key = call[p].key /\ b.cover_url = NULL

\* C8: set_book_status with a status outside the enumeration ends with an
\* error, and no step of it changes the committed books or book_statuses.
C8_InvalidStatusRejected ==
    [][ \A p \in Procs :
          ( /\ call[p].name = "set_book_status"
            /\ call[p].status \notin ValidStatuses
            /\ call'[p] # call[p] )
          => /\ UNCHANGED <<books, book_statuses, book_seq>>
             /\ call'[p].pc = "idle" => (ret'.proc = p /\ ret'.kind = "error") ]_vars

\* An invalid status was rejected for a key that has a record.
C8_Witness ==
    /\ ret.name = "set_book_status"
    /\ ret.error = "IntegrityError"
    /\ JoinFor(books, book_statuses, ret.key) # {}

\* C9 (as stated): while a set_book_status call with a status outside the
\* enumeration is running, it has issued no write statement.
C9_RejectedBeforeWrite ==
    \A p \in Procs :
       (call[p].name = "set_book_status" /\ call[p].status \notin ValidStatuses)
       => ~tx[p].open

\* C9 (amended): such a call is rejected by the CHECK constraint when the
\* book_statuses upsert runs, after its books upsert was issued in the still
\* uncommitted transaction; it never reaches the commit.
C9_RejectedAtStatusWrite ==
    [][ \A p \in Procs :
          ( /\ call[p].name = "set_book_status"
            /\ call[p].status \notin ValidStatuses
            /\ call'[p] # call[p] )
          => /\ call'[p].pc \notin {"set_commit", "set_read_back"}
             /\ (call'[p].pc = "idle" /\ ret'.error = "IntegrityError")
                => /\ call[p].pc = "set_upsert_status"
                   /\ tx[p].open
                   /\ \E b \in tx[p].books :
                         /\ b.openlibrary_work_key = call[p].key
                         /\ b.title = call[p].meta.title
                   /\ UNCHANGED <<books, book_statuses, book_seq>> ]_vars

\* The CHECK constraint rejected a call at its book_statuses upsert.
C9_Witness ==
    /\ ret.name = "set_book_status"
    /\ ret.error = "IntegrityError"
    /\ ret.pc = "set_upsert_status"

\* C10: delete_book_status on a key that has a status returns true and removes
\* the status row and the book row: get_book_status then returns absent and
\* books has one row less.
C10_DeleteRemovesBoth ==
    [][ \A p \in Procs :
          (Commits(p, "del_commit") /\ JoinFor(books, book_statuses, call[p].key) # {})
          => /\ ret'.kind = "bool" /\ ret'.bool
             /\ BookStatus(p, books', book_statuses', call[p].key).kind = "none"
             /\ Cardinality(books') = Cardinality(books) - 1
             /\ Cardinality(book_statuses') = Cardinality(book_statuses) - 1
             /\ ~\E b \in books' : b.openlibrary_work_key = call[p].key ]_vars

\* A delete returned true and the record of another key is still stored.
C10_Witness ==
    /\ ret.name = "delete_book_status"
    /\ ret.kind = "bool"
    /\ ret.bool
    /\ Cardinality(books) = 1
    /\ Cardinality(book_statuses) = 1

\* C11: delete_book_status on a key for which no book exists issues no write
\* statement, changes no row of any table, and returns false (unless the call
\* is aborted).
C11_DeleteMissing ==
    [][ \A p \in Procs :
          ( /\ call[p].pc = "del_select_id"
            /\ ~\E b \in books : b.openlibrary_work_key = call[p].key
            /\ call'[p] # call[p] )
          => /\ UNCHANGED <<books, book_statuses, book_seq, search_cache>>
             /\ ~tx[p].open /\ ~tx'[p].open
             /\ call'[p].pc = "idle"
             /\ ret'.proc = p
             /\ ret'.kind = "error" \/ (ret'.kind = "bool" /\ ~ret'.bool) ]_vars

\* A delete returned false at its lookup while another book is stored.
C11_Witness ==
    /\ ret.name = "delete_book_status"
    /\ ret.pc = "del_select_id"
    /\ ret.kind = "bool"
    /\ ~ret.bool
    /\ books # {}
    /\ ~\E b \in books : b.openlibrary_work_key = ret.key

\* C12 (as stated): every open connection belongs to a call that is still
\* running; when a call is over, on whatever exit path, its connection is
\* closed.
C12_ConnectionClosed ==
    connections = Cardinality({p \in Procs : call[p].pc # "idle"})

\* C13 (as stated): the read-back of set_book_status finds the record the call
\* has just committed: it does not fail on a missing joined row and returns
\* the status, the metadata and the update time of its own call.
C13_ReadBackOwnWrite ==
    [][ \A p \in Procs :
          ( /\ call[p].pc = "set_read_back"
            /\ call'[p].pc = "idle"
            /\ ret'.error # "Aborted" )
          => /\ ret'.kind = "row"
             /\ ret'.row.openlibrary_work_key = call[p].key
             /\ ret'.row.status = call[p].status
             /\ ret'.row.title = call[p].meta.title
             /\ ret'.row.author_name = call[p].meta.author_name
             /\ ret'.row.cover_url = call[p].meta.cover_url
             /\ ret'.row.first_publish_year = call[p].meta.first_publish_year
             /\ ret'.row.updated_at = call[p].now ]_vars

\* C14: search_cache never holds two rows with one fingerprint; a store
\* computes its expiry from the time of its own call, and when it commits the
\* row of its fingerprint is exactly the row of that call (query, page, limit,
\* payload, expiry), the other rows are as before, and a get before that expiry
\* returns the payload of that call.
C14_LastWriterWins ==
    [][ /\ \A r1, r2 \in search_cache' : r1.query_hash = r2.query_hash => r1 = r2
        /\ \A p \in Procs :
              (call[p].pc = "idle" /\ call'[p].name = "store_cached_response")
              => call'[p].expires_at = IsoFormat(now + TtlTicks)
        /\ \A p \in Procs :
              Commits(p, "store_commit")
              => LET c == call[p]
                     mine == [query_hash |-> generate_cache_key(c.query, c.page, c.limit),
                              query |-> c.query, page |-> c.page, limit_val |-> c.limit,
                              response_json |-> c.response_json,
                              expires_at |-> c.expires_at]
                     got == CachedResponse(p, search_cache', c.query, c.page, c.limit, now)
                 IN  /\ search_cache' =
                           {r \in search_cache : r.query_hash # mine.query_hash}
                           \cup {mine}
                     /\ now < Instant(c.expires_at)
                        => /\ got.kind = "payload"
                           /\ \E response \in Payloads :
                                 /\ JsonDumps(response) = c.response_json
                                 /\ got.payload = response ]_vars

\* A store is about to commit over a row of the same fingerprint that has
\* another query text, another payload and another expiry, while the other
\* handler has a store in progress.
C14_Witness ==
    \E p \in Procs :
       /\ call[p].pc = "store_commit"
       /\ \E old \in search_cache :
             /\ old.query_hash = call[p].query_hash
             /\ old.query # call[p].query
             /\ old.response_json # call[p].response_json
             /\ old.expires_at # call[p].expires_at
       /\ \E q \in Procs \ {p} : call[q].name = "store_cached_response"

\* C15: a step of get_cached_response changes no row of search_cache, neither
\* committed nor pending: a row that it reports absent because it has expired
\* is still stored afterwards.
C15_GetLeavesCache ==
    [][ (ret'.name = "get_cached_response" /\ call' = call /\ now' = now)
        => UNCHANGED <<search_cache, tx, lock>> ]_vars

\* A get returned absent for a request whose expired row is still stored.
C15_Witness ==
    /\ ret.name = "get_cached_response"
    /\ ret.kind = "none"
    /\ \E r \in search_cache :
          /\ r.query_hash = generate_cache_key(ret.query, ret.page, ret.limit)
          /\ now >= Instant(r.expires_at)

\* C16: when invalidate_cache commits, the rows with the fingerprint of its
\* request are gone and every other row is still stored; it returns true iff a
\* row with that fingerprint was stored before the call, expired or not.
C16_InvalidateExact ==
    [][ \A p \in Procs :
          Commits(p, "invalidate_commit")
          => LET c == call[p]
                 hash == generate_cache_key(c.query, c.page, c.limit)
             IN  /\ search_cache' = {r \in search_cache : r.query_hash # hash}
                 /\ ret'.kind = "bool"
                 /\ ret'.bool <=> (\E r \in search_cache : r.query_hash = hash) ]_vars

\* An invalidate is about to commit the removal of a row that has expired and
\* that a get no longer returns, while a row of another request stays.
C16_Witness ==
    \E p \in Procs :
       /\ call[p].pc = "invalidate_commit"
       /\ call[p].rowcount > 0
       /\ \E r \in search_cache :
             /\ r.query_hash = call[p].query_hash
             /\ now >= Instant(r.expires_at)
             /\ r \notin tx[p].search_cache
       /\ CachedResponse(p, search_cache, call[p].query, call[p].page,
                         call[p].limit, now).kind = "none"
       /\ tx[p].search_cache # {}

\* a and b are one letter, in whatever case.
SameLetter(a, b) == a = b \/ {a, b} = {"t", "T"} \/ {a, b} = {"u", "U"}

\* q is blank from position i to position j.
Blank(q, i, j) == \A k \in i..j : q[k] = " "

\* q1 and q2 differ at most in letter case and in leading or trailing blanks.
SameText(q1, q2) ==
    \E i1 \in 0..Len(q1), i2 \in 0..Len(q2) :
       \E j1 \in i1..Len(q1), j2 \in i2..Len(q2) :
          /\ Blank(q1, 1, i1) /\ Blank(q1, j1 + 1, Len(q1))
          /\ Blank(q2, 1, i2) /\ Blank(q2, j2 + 1, Len(q2))
          /\ j1 - i1 = j2 - i2
          /\ \A k \in 1..(j1 - i1) : SameLetter(q1[i1 + k], q2[i2 + k])

\* C17: the key a call has computed for its request is the key computed anew
\* for the same request, it is the key of every request whose query differs in
\* letter case or surrounding blanks only, and it is not the key of a request
\* that differs in the page only or in the limit only.
C17_KeyFunction ==
    \A p \in Procs :
       call[p].query_hash # <<>>
       => LET c == call[p]
          IN  /\ c.query_hash = generate_cache_key(c.query, c.page, c.limit)
              /\ \A q2 \in KeyQueries :
                    SameText(c.query, q2)
                    => generate_cache_key(q2, c.page, c.limit) = c.query_hash
              /\ \A page2 \in KeyPages \ {c.page} :
                    generate_cache_key(c.query, page2, c.limit) # c.query_hash
              /\ \A limit2 \in KeyLimits \ {c.limit} :
                    generate_cache_key(c.query, c.page, limit2) # c.query_hash

\* A call has computed, for a query in upper case between blanks, the key under
\* which the lower-case query is stored, next to a row of that query for
\* another page and a row for another limit.
C17_Witness ==
    \E p \in Procs :
       /\ call[p].query = <<" ", "T", " ">>
       /\ \E r \in search_cache :
             r.query = <<"t">> /\ r.query_hash = call[p].query_hash
       /\ \E r \in search_cache :
             /\ r.query = <<"t">> /\ r.page # call[p].page
             /\ r.limit_val = call[p].limit /\ r.query_hash # call[p].query_hash
       /\ \E r \in search_cache :
             /\ r.query = <<"t">> /\ r.page = call[p].page
             /\ r.limit_val # call[p].limit /\ r.query_hash # call[p].query_hash

\* The keys that occur in the list keys.
Requested(keys) == {keys[i] : i \in 1..Len(keys)}

\* C18: get_book_statuses_batch returns a mapping whose keys are exactly the
\* requested keys that have a status at the time of its query, each with that
\* status; it raises no error for a requested key without status.
C18_BatchExact ==
    [][ \A p \in Procs :
          ( /\ call[p].pc = "batch_select"
            /\ call'[p].pc = "idle"
            /\ ret'.error # "Aborted" )
          => /\ ret'.kind = "map"
             /\ DOMAIN ret'.map =
                   {k \in Requested(call[p].keys) :
                       JoinFor(books, book_statuses, k) # {}}
             /\ \A k \in DOMAIN ret'.map :
                   \A r \in JoinFor(books, book_statuses, k) :
                      ret'.map[k] = r.status ]_vars

\* A batch over two keys with different statuses and a key never stored
\* returned the two.
C18_Witness ==
    /\ ret.name = "get_book_statuses_batch"
    /\ ret.kind = "map"
    /\ ret.keys = <<"/works/OL1W", "/works/OL2W", "/works/OL9W">>
    /\ DOMAIN ret.map = {"/works/OL1W", "/works/OL2W"}
    /\ ret.map["/works/OL1W"] # ret.map["/works/OL2W"]

\* C19: get_book_statuses_batch with an empty list returns an empty mapping in
\* a step that opens no connection and starts no statement; a batch call that
\* has opened a connection has a key to ask for.
C19_EmptyBatch ==
    [][ /\ \A p \in Procs :
              call'[p].name = "get_book_statuses_batch" => call'[p].keys # <<>>
        /\ ( /\ ret'.name = "get_book_statuses_batch"
              /\ ret'.keys = <<>>
              /\ ret' # ret )
           => /\ ret'.kind = "map"
              /\ DOMAIN ret'.map = {}
              /\ UNCHANGED <<connections, call, tx, lock, books, book_statuses,
                             book_seq, search_cache>> ]_vars

\* A batch with an empty list returned an empty mapping while records are
\* stored and no connection is open.
C19_Witness ==
    /\ ret.name = "get_book_statuses_batch"
    /\ ret.keys = <<>>
    /\ ret.kind = "map"
    /\ DOMAIN ret.map = {}
    /\ books # {}
    /\ connections = 0

\* C20: what get_status_counts returns has exactly the keys to_read,
\* did_not_finish and completed, each with the number of book_statuses rows of
\* that status, 0 where there is none.
C20_StatusCounts ==
    LET counts == StatusCounts(book_statuses)
    IN  /\ DOMAIN counts = {"to_read", "did_not_finish", "completed"}
        /\ \A st \in DOMAIN counts :
              counts[st] = Cardinality({s \in book_statuses : s.status = st})

\* get_status_counts returned one to_read, one completed and no
\* did_not_finish.
C20_Witness ==
    /\ ret.name = "get_status_counts"
    /\ ret.kind = "map"
    /\ ret.map["to_read"] = 1
    /\ ret.map["completed"] = 1
    /\ ret.map["did_not_finish"] = 0
    /\ Cardinality(book_statuses) = 2

\* The records of the list l whose status is status, in the order of l.
WithStatus(l, status) ==
    LET Has(r) == r.status = status IN SelectSeq(l, Has)

\* The list l has each member of rows once and nothing else.
ListsExactly(l, rows) ==
    /\ Len(l) = Cardinality(rows)
    /\ \A r \in rows : \E i \in 1..Len(l) : l[i] = Decoded(r)

\* C21 (as stated): get_all_book_statuses returns one record per book that has
\* a status, latest updated_at first, and right after set_book_status has
\* returned for a key, that key comes first.
C21_LatestFirst ==
    [][ (ret'.name = "get_all_book_statuses" /\ ret' # ret)
        => /\ ListsExactly(ret'.list, Join(books, book_statuses))
           /\ \A i, j \in 1..Len(ret'.list) :
                 i < j => ~TextLess(ret'.list[i].updated_at, ret'.list[j].updated_at)
           /\ (ret.name = "set_book_status" /\ ret.kind = "row")
              => ret'.list[1].openlibrary_work_key = ret.key ]_vars

C23_GetLatest ==
    [][ (books' # books \/ book_statuses' # book_statuses)
        => \A key \in Keys :
             LET before == BookStatus("h1", books, book_statuses, key)
                 after == BookStatus("h1", books', book_statuses', key)
             IN  /\ after.kind \in {"none", "row"}
                 /\ after.kind = "none"
                    <=> ~\E b \in books' :
                           /\ b.openlibrary_work_key = key
                           /\ \E s \in book_statuses' : s.book_id = b.id
                 /\ (after.kind # before.kind \/ after.row # before.row)
                    => \E p \in Procs :
                          /\ call[p].key = key
                          /\ \/ /\ Commits(p, "set_commit")
                                /\ after.kind = "row"
                                /\ after.row.openlibrary_work_key = key
                                /\ after.row.status = call[p].status
                                /\ after.row.title = call[p].meta.title
                                /\ after.row.author_name = call[p].meta.author_name
                                /\ after.row.cover_url = call[p].meta.cover_url
                                /\ after.row.first_publish_year
                                      = call[p].meta.first_publish_year
                             \/ /\ Commits(p, "del_commit")
                                /\ after.kind = "none" ]_vars

\* get_book_status has returned the record of a key that was written twice,
\* while another key is stored too.
C23_Witness ==
    /\ ret.name = "get_book_status"
    /\ ret.kind = "row"
    /\ ret.row.title = "Book One (rev)"
    /\ ret.row.created_at # ret.row.updated_at
    /\ \E b \in books : b.openlibrary_work_key # ret.key

\* C24: a connection that get_db_connection has handed to the body of an
\* operation has foreign-key enforcement on: whenever a call holds a
\* connection past the PRAGMA statement, the flag of that connection is set.
C24_ForeignKeysOn ==
    \A p \in Procs : call[p].pc \notin {"idle", "pragma"} => call[p].foreign_keys

\* One operation has run a statement on its connection while the connection
\* of another has been opened and not yet configured.
C24_Witness ==
    \E p, q \in Procs :
       /\ call[p].pc = "executed"
       /\ call[p].foreign_keys
       /\ call[q].pc = "pragma"
       /\ ~call[q].foreign_keys

\* C25: a step of an init_database call on a store that has all its tables
\* and indexes changes neither the schema nor a row of search_cache, books or
\* book_statuses, and the call ends by returning, without an error.
C25_InitIdempotent ==
    [][ \A p \in Procs :
          (call[p].name = "init_database" /\ call'[p] # call[p]
             /\ schema = SchemaObjects)
          => /\ UNCHANGED <<schema, books, book_statuses, book_seq, search_cache>>
             /\ call'[p].pc = "idle"
                => (ret'.proc = p /\ ret'.name = "init_database"
                      /\ ret'.kind = "none") ]_vars

\* A call of init_database has returned and the next one has run its eight
\* statements, while the three tables hold rows and a handler is in the
\* middle of a write.
C25_Witness ==
    /\ ret.name = "init_database"
    /\ ret.kind = "none"
    /\ call[ret.proc].name = "init_database"
    /\ call[ret.proc].pc = "init_commit"
    /\ books # {}
    /\ book_statuses # {}
    /\ search_cache # {}
    /\ lock \in Procs \ {ret.proc}

\* C26: the author list in a record returned by set_book_status,
\* get_book_status or a list operation is the list given to the latest
\* committed set_book_status for the key, element by element: the commit of a
\* set_book_status stores a text that decodes to its list, only such a commit
\* changes the stored text of a key, and every returned record carries the
\* decoding of the stored text.
C26_AuthorsRoundTrip ==
    [][ /\ \A p \in Procs :
             Commits(p, "set_commit")
             => /\ \E b \in books' : b.openlibrary_work_key = call[p].key
                /\ \A b \in books' :
                      b.openlibrary_work_key = call[p].key
                      => /\ Len(JsonLoadsList(b.author_name))
                              = Len(call[p].meta.author_name)
                         /\ \A i \in 1..Len(call[p].meta.author_name) :
                               JsonLoadsList(b.author_name)[i]
                                 = call[p].meta.author_name[i]
        /\ \A b \in books \ books', c \in books' \ books :
             (b.openlibrary_work_key = c.openlibrary_work_key
                /\ b.author_name # c.author_name)
             => \E p \in Procs : /\ Commits(p, "set_commit")
                                 /\ call[p].key = b.openlibrary_work_key
        /\ (ret' # ret /\ ret'.kind = "row")
           => \E b \in books' :
                 /\ b.openlibrary_work_key = ret'.key
                 /\ ret'.row.author_name = JsonLoadsList(b.author_name)
        /\ (ret' # ret /\ ret'.kind = "list")
           => \A i \in 1..Len(ret'.list) :
                 \E b \in books' :
                    /\ b.openlibrary_work_key = ret'.list[i].openlibrary_work_key
                    /\ ret'.list[i].author_name = JsonLoadsList(b.author_name) ]_vars

\* A list operation has returned two records whose author lists hold the same
\* names in different orders.
C26_Witness ==
    /\ ret.kind = "list"
    /\ Len(ret.list) = 2
    /\ ret.list[1].author_name = <<"Author One", "Author Two">>
    /\ ret.list[2].author_name = <<"Author Two", "Author One">>

\* The unexpired rows of the cache for the request in the frame f.
Unexpired(f) ==
    {r \in search_cache :
        /\ r.query_hash = generate_cache_key(f.q, f.page, f.limit)
        /\ Instant(r.expires_at) > now}

\* C27 (as stated): when the cache holds an unexpired payload for the request,
\* the lookup of the search handler leads to the answer built from that
\* payload and not to a call of search_books, whatever the payload is.
C27_AnswersFromCache ==
    [][ \A p \in Procs :
          (search[p].pc = "lookup" /\ search'[p].pc \in {"enrich", "fetch"})
          => \A r \in Unexpired(search[p]) :
                /\ search'[p].pc = "enrich"
                /\ search'[p].cached
                /\ search'[p].raw_response = JsonLoads(r.response_json) ]_vars

\* C28: a request calls search_books at most once and store_cached_response
\* at most once, the latter only after search_books has returned; the cache
\* changes only when such a store commits, to hold the fetched payload; an
\* answer that is not built from the cache comes after one fetch and one
\* store, and a failed fetch leaves the cache as it is.
C28_StoreAfterFetch ==
    [][ /\ \A p \in Procs :
             /\ search'[p].fetched <= 1
             /\ search'[p].stored <= search'[p].fetched
             /\ search'[p].cached => search'[p].fetched = 0
             /\ (search[p].pc = "fetch" /\ search'[p].pc = "idle")
                => /\ UNCHANGED <<search_cache, tx, lock>>
                   /\ ret'.stored = 0
                   /\ ret'.code # 200
        /\ search_cache' # search_cache
           => \E p \in Procs :
                 /\ search[p].pc = "store_commit"
                 /\ search'[p].pc = "enrich"
                 /\ search[p].fetched = 1
                 /\ search[p].stored = 1
                 /\ \E r \in search_cache' :
                       /\ r.query_hash = generate_cache_key(search[p].q, search[p].page,
                                                            search[p].limit)
                       /\ JsonLoads(r.response_json) = search[p].raw_response
                       /\ search_cache' \ {r}
                            = {c \in search_cache : c.query_hash # r.query_hash}
        /\ (ret' # ret /\ ret'.kind = "response" /\ ret'.code = 200)
           => IF ret'.cached THEN ret'.fetched = 0 /\ ret'.stored = 0
              ELSE ret'.fetched = 1 /\ ret'.stored = 1 ]_vars

\* A request has been answered from a fetch made after the clock has
\* advanced, and the cache holds the fetched payload.
C28_Witness ==
    /\ ret.kind = "response"
    /\ ret.code = 200
    /\ ~ret.cached
    /\ ret.fetched = 1
    /\ ret.stored = 1
    /\ ret.payload # <<>>
    /\ \E r \in search_cache :
          /\ JsonLoads(r.response_json) = ret.payload
          /\ Instant(r.expires_at) > TtlTicks

\* The message has the words "timed out" next to each other, in some case.
SaysTimedOut(message) ==
    \E i \in 1..(Len(message) - 2) :
       /\ message[i] \in {"timed", "Timed", "TIMED"}
       /\ message[i + 1] = " "
       /\ message[i + 2] \in {"out", "Out", "OUT"}

\* C29: when search_books fails with an OpenLibraryError, the handler answers
\* 504 if the message says "timed out" in any letter case and 502 otherwise;
\* no fetch that failed is answered with 200.
C29_ErrorStatus ==
    [][ \A p \in Procs :
          (search[p].pc = "fetch" /\ search'[p].pc = "idle")
          => /\ ret'.proc = p
             /\ ret'.kind = "response"
             /\ ret'.code # 200
             /\ ret'.error = "OpenLibraryError"
                => ret'.code = IF SaysTimedOut(ret'.message) THEN 504 ELSE 502 ]_vars

\* A connection failure whose text says "Timed Out" in capitals has been
\* answered with 504.
C29_Witness ==
    /\ ret.kind = "response"
    /\ ret.error = "OpenLibraryError"
    /\ ret.code = 504
    /\ \E i \in 1..Len(ret.message) : ret.message[i] = "Timed"

\* C30: a GET is answered 404 exactly when get_book_status returned absent,
\* which is when no book with a status is stored for the key; a DELETE is
\* answered 404 exactly when delete_book_status returned false and 204 when
\* it returned true, which it does whenever its commit removed a status.
C30_NotFound ==
    [][ /\ (ret.code = 0 /\ ret'.code # 0 /\ ret.name = "get_book_status")
           => /\ ret'.code = 404 <=> ret.kind = "none"
              /\ ret.kind = "row" => ret'.code = 200
        /\ (ret.code = 0 /\ ret'.code # 0 /\ ret.name = "delete_book_status")
           => /\ ret'.code = 404 <=> (ret.kind = "bool" /\ ~ret.bool)
              /\ (ret.kind = "bool" /\ ret.bool) => ret'.code = 204
        /\ (ret' # ret /\ ret'.name = "get_book_status" /\ ret'.code = 0)
           => (get_status(ret') = 404
                 <=> ~\E b \in books :
                        /\ b.openlibrary_work_key = ret'.key
                        /\ \E s \in book_statuses : s.book_id = b.id)
        /\ \A p \in Procs :
             (Commits(p, "del_commit") /\ book_statuses' # book_statuses)
             => /\ ret'.kind = "bool"
                /\ remove_status(ret') = 204 ]_vars

\* A DELETE for a key without a book has been answered 404 while the store
\* holds no status.
C30_Witness ==
    /\ ret.name = "delete_book_status"
    /\ ret.kind = "bool"
    /\ ~ret.bool
    /\ ret.code = 404
    /\ book_statuses = {}

\* C31: when clear_all_cache commits, no search_cache row is left, the call
\* returns the number of rows that were stored (0 on an empty cache), and
\* books and book_statuses are as before.
C31_ClearAll ==
    [][ \A p \in Procs :
          Commits(p, "clear_all_commit")
          => /\ search_cache' = {}
             /\ ret'.name = "clear_all_cache"
             /\ ret'.kind = "int"
             /\ ret'.int = Cardinality(search_cache)
             /\ UNCHANGED <<books, book_statuses, book_seq>> ]_vars

\* clear_all_cache is about to commit the removal of two rows, one expired
\* and one that a get still returns.
C31_Witness ==
    \E p \in Procs :
       /\ call[p].pc = "clear_all_commit"
       /\ call[p].rowcount = 2
       /\ \E r \in search_cache : now >= Instant(r.expires_at)
       /\ \E r \in search_cache : now < Instant(r.expires_at)
       /\ tx[p].search_cache = {}

\* C32 (as stated): a read of a row whose stored author_name is not the
\* encoding of a list of strings ends with an error: no record returned by
\* get_book_status, get_all_book_statuses or get_books_by_status carries
\* anything but a list of strings as author_name.
C32_CorruptAuthorsFail ==
    ret.name \in {"get_book_status", "get_all_book_statuses", "get_books_by_status"}
    => /\ ret.kind = "row" => IsStrList(ret.row.author_name)
       /\ ret.kind = "list"
          => \A i \in 1..Len(ret.list) : IsStrList(ret.list[i].author_name)

\* C33: the commit of clear_expired_cache removes no row that
\* get_cached_response returns at that moment: for every request, a get that
\* finds a payload before the commit finds the same payload after it.
C33_SweepKeepsHits ==
    [][ \A p \in Procs :
          Commits(p, "clear_expired_commit")
          => \A q \in Queries, page \in Pages, limit \in Limits :
                LET before == CachedResponse(p, search_cache, q, page, limit, now)
                    after == CachedResponse(p, search_cache', q, page, limit, now)
                IN  before.kind = "payload"
                    => (after.kind = "payload" /\ after.payload = before.payload) ]_vars

\* A sweep is about to commit the removal of a row while it keeps a row whose
\* expiry time has passed and that a get still returns.
C33_Witness ==
    \E p \in Procs :
       /\ call[p].pc = "clear_expired_commit"
       /\ call[p].rowcount > 0
       /\ \E r \in tx[p].search_cache :
             /\ now >= Instant(r.expires_at)
             /\ CachedResponse(p, search_cache, r.query, r.page, r.limit_val,
                               now).kind = "payload"

\* C34: with set_book_status and delete_book_status calls running
\* concurrently on one key, every committed state has at most one books row per
\* key, at most one book_statuses row per book, a status row for every book
\* and a book for every status row.
C34_ConcurrentRowsUnique ==
    /\ \A b1, b2 \in books :
          b1.openlibrary_work_key = b2.openlibrary_work_key => b1 = b2
    /\ \A s1, s2 \in book_statuses : s1.book_id = s2.book_id => s1 = s2
    /\ \A b \in books : \E s \in book_statuses : s.book_id = b.id
    /\ \A s \in book_statuses : \E b \in books : b.id = s.book_id

\* A delete that read the id of the first record is about to run its deletes
\* after another handler has deleted that record and stored the key anew.
C34_Witness ==
    \E p \in Procs :
       /\ call[p].name = "delete_book_status"
       /\ call[p].pc = "del_status"
       /\ call[p].book_id = 1
       /\ \E b \in books : b.openlibrary_work_key = call[p].key /\ b.id = 2
       /\ \E s \in book_statuses : s.book_id = 2

\* C35: a store commits under a key that no request with another normalised
\* query, another page or another limit gets, also among queries that contain
\* ':' or digits, and the row it replaces, if any, is a row of its own request.
C35_KeyInjective ==
    [][ \A p \in Procs :
          Commits(p, "store_commit")
          => LET c == call[p]
             IN  /\ \A q2 \in ColonQueries, page2 \in ColonPages, limit2 \in ColonLimits :
                       generate_cache_key(q2, page2, limit2) = c.query_hash
                       => SameText(c.query, q2) /\ page2 = c.page /\ limit2 = c.limit
                 /\ \A r \in search_cache \ search_cache' :
                       SameText(r.query, c.query) /\ r.page = c.page
                       /\ r.limit_val = c.limit ]_vars

\* A store for the query "t:1" is about to replace the row of "t:1" while the
\* rows of "t" for page 11 and of "t1" for page 1 stay.
C35_Witness ==
    \E p \in Procs :
       /\ call[p].pc = "store_commit"
       /\ call[p].query = <<"t", ":", "1">>
       /\ call[p].page = 1
       /\ \E r \in search_cache \ tx[p].search_cache :
             r.query_hash = call[p].query_hash
       /\ \E r \in tx[p].search_cache \cap search_cache :
             LowerStr(r.query) = <<"t">> /\ r.page = 11
       /\ \E r \in tx[p].search_cache \cap search_cache :
             r.query = <<"t", "1">> /\ r.page = 1

\* C36: in every reachable state the three counts of get_status_counts add up
\* to the number of records that get_all_book_statuses returns and to the
\* number of books rows.
C36_CountsAddUp ==
    LET counts == StatusCounts(book_statuses)
        total == counts["to_read"] + counts["did_not_finish"] + counts["completed"]
    IN  /\ total = Cardinality(books)
        /\ \A l \in OrderedByUpdatedAt(Join(books, book_statuses)) :
              /\ \A i \in 1..Len(l) : JsonDecodes(l[i].author_name)
              /\ Len(DecodedRows(l)) = total

\* get_all_book_statuses returned two records while one book is to_read and one
\* completed.
C36_Witness ==
    /\ ret.name = "get_all_book_statuses"
    /\ ret.kind = "list"
    /\ Len(ret.list) = 2
    /\ StatusCounts(book_statuses)["to_read"] = 1
    /\ StatusCounts(book_statuses)["completed"] = 1

\* C37: a set_book_status that starts right after a completed
\* delete_book_status of its key finds no books row of the key and no status
\* row without a book; and a set_book_status that commits for a key without a
\* books row stores one record whose created_at and updated_at are the time of
\* this call, whose status and metadata are those of this call, and whose book
\* row has an id never used before and the created_at of this call.
C37_DeleteThenSetIsNew ==
    [][ \A p \in Procs :
          /\ ( /\ call[p].pc = "idle"
               /\ call'[p].name = "set_book_status"
               /\ ret.name = "delete_book_status"
               /\ ret.kind = "bool"
               /\ ret.key = call'[p].key )
             => /\ ~\E b \in books : b.openlibrary_work_key = call'[p].key
                /\ \A s \in book_statuses : \E b \in books : b.id = s.book_id
          /\ ( /\ Commits(p, "set_commit")
               /\ ~\E b \in books : b.openlibrary_work_key = call[p].key )
             => LET c == call[p]
                    new == JoinFor(books', book_statuses', c.key)
                IN  /\ Cardinality(new) = 1
                    /\ \A n \in new :
                          /\ n.created_at = c.now /\ n.updated_at = c.now
                          /\ n.status = c.status /\ n.title = c.meta.title
                          /\ n.author_name = c.author_name_json
                          /\ n.cover_url = c.meta.cover_url
                          /\ n.first_publish_year = c.meta.first_publish_year
                    /\ \A b \in books' :
                          b.openlibrary_work_key = c.key
                          => b.created_at = c.now /\ b.id > book_seq ]_vars

\* The only key was stored at time 0 and deleted, and a set_book_status at time
\* 1 returned its record, created and updated at time 1, with the second id.
C37_Witness ==
    /\ ret.name = "set_book_status"
    /\ ret.kind = "row"
    /\ ret.row.created_at = IsoFormat(1)
    /\ ret.row.updated_at = IsoFormat(1)
    /\ \E b \in books : b.id = 2 /\ b.created_at = IsoFormat(1)
    /\ Cardinality(book_statuses) = 1

\* The books rows of bs that belong to another key than key.
OtherBooks(bs, key) == {b \in bs : b.openlibrary_work_key # key}

\* The status rows of ss that belong to a book of another key than key.
OtherStatuses(bs, ss, key) ==
    {s \in ss : \E b \in OtherBooks(bs, key) : b.id = s.book_id}

\* C38: a step of set_book_status or delete_book_status for key k changes no
\* books or book_statuses row of another key and no search_cache row; a step of
\* a cache operation changes no books or book_statuses row.
C38_Frame ==
    [][ \A p \in Procs :
          LET c == IF call[p].pc # "idle" THEN call[p] ELSE call'[p]
          IN  /\ (c.name \in {"set_book_status", "delete_book_status"}
                   /\ call'[p] # call[p])
                 => /\ search_cache' = search_cache
                    /\ OtherBooks(books', c.key) = OtherBooks(books, c.key)
                    /\ OtherStatuses(books', book_statuses', c.key)
                          = OtherStatuses(books, book_statuses, c.key)
              /\ (c.name \in {"store_cached_response", "invalidate_cache",
                               "clear_all_cache", "clear_expired_cache"}
                   /\ call'[p] # call[p])
                 => UNCHANGED <<books, book_statuses, book_seq>>
              /\ (ret'.name = "get_cached_response" /\ ret' # ret)
                 => UNCHANGED <<books, book_statuses, book_seq>> ]_vars

\* A delete_book_status is about to commit while the record of the other key
\* and a cache row are stored.
C38_Witness ==
    \E p \in Procs :
       /\ call[p].name = "delete_book_status"
       /\ call[p].pc = "del_commit"
       /\ books \ tx[p].books # {}
       /\ OtherStatuses(books, book_statuses, call[p].key) # {}
       /\ search_cache # {}

\* C39 (as stated): in every reachable state each book_statuses row has
\* created_at at or before updated_at; the clock only moves forward.
C39_CreatedBeforeUpdated ==
    \A s \in book_statuses : Instant(s.created_at) <= Instant(s.updated_at)

\* C40: the total_pages that parse_search_response returns is the least
\* number of pages of limit entries that hold total entries when limit is
\* positive (0 when total is 0), and 0 when limit is not positive.
C40_TotalPages ==
    ret.name = "parse_search_response"
    => LET total == IntOf(ret.payload[1].val.v[1])
           pages == ret.response.total_pages
       IN  /\ ret.response.total = total
           /\ IF ret.limit > 0
              THEN /\ pages * ret.limit >= total
                   /\ (pages - 1) * ret.limit < total
                   /\ total = 0 => pages = 0
              ELSE pages = 0

\* parse_search_response returned 5 pages for 9 matches with 2 on a page.
C40_Witness ==
    /\ ret.name = "parse_search_response"
    /\ ret.limit = 2
    /\ ret.response.total = 9
    /\ ret.response.total_pages = 5

====
